---------------------------- MODULE Spec2Model ----------------------------
(***************************************************************************)
(* A model of tools/csv_to_ttl.py (NatLibFi/lkd): the CSV to RDF converter *)
(* DataModelConverter.                                                     *)
(*                                                                         *)
(* Text.  A Python string is modelled as a sequence of tokens.  The        *)
(* punctuation characters the code looks at ("[", "]", ",", " ", "{", "}", *)
(* ":", "|", ".") are one token each; every other token stands for a       *)
(* maximal run of other characters (a name such as "bffi" or "Work").      *)
(* split / slicing and the comparison of cells are computed on the token   *)
(* sequence; strip, the prefix tests on text, int(), the order of strings, *)
(* the case and the categories of characters are computed on the           *)
(* characters of the tokens (a token is a string, whose characters SubSeq  *)
(* and Len reach). The tables of characters follow Unicode 14.0, the       *)
(* version of Python 3.11.                                                 *)
(*                                                                         *)
(* Terms.  An RDF term is a sequence of strings whose head is its kind:    *)
(*   <<"iri", f1, f2, ...>>   the IRI f1 f2 ... (concatenated)             *)
(*   an absolute IRI is tokenized "http", ":", rest, and one in a known    *)
(*   namespace as the namespace's tokens followed by the local name        *)
(*   <<"bnode", id, ...>>     a blank node named id ...                    *)
(*   <<"lit", tag, v1, ...>>  a literal v1 ... whose tag is its language,  *)
(*                            its datatype ("xsd:date") or "" for neither  *)
(* The graph is a set of triples <<s, p, o>> of terms (rdflib.Graph).      *)
(***************************************************************************)
EXTENDS Naturals, Integers, Sequences, FiniteSets, TLC

(***************************************************************************)
(* Python string helpers on token sequences                                *)
(***************************************************************************)
\* the characters of a token sequence as one string
RECURSIVE textOf(_)
textOf(s) == IF s = <<>> THEN "" ELSE Head(s) \o textOf(Tail(s))

\* the UTF-16 unit at position i of string t: a character up to U+FFFF is
\* one unit of a string, a character beyond it two (a surrogate pair)
unitAt(t, i) == SubSeq(t, i, i)

\* t1.startswith(t2) on strings
textStartswith(t1, t2) == Len(t1) >= Len(t2) /\ SubSeq(t1, 1, Len(t2)) = t2
textEndswith(t1, t2) ==
    Len(t1) >= Len(t2) /\ SubSeq(t1, Len(t1) - Len(t2) + 1, Len(t1)) = t2

\* str.lstrip(chars): the leading characters that are in chars are dropped,
\* whole tokens first and then the head of the first token that stays
RECURSIVE lstrip(_, _)
lstrip(s, chars) ==
    IF s = <<>> THEN s
    ELSE IF Len(Head(s)) = 0 THEN lstrip(Tail(s), chars)
    ELSE IF unitAt(Head(s), 1) \in chars
    THEN lstrip(<<SubSeq(Head(s), 2, Len(Head(s)))>> \o Tail(s), chars)
    ELSE s

\* str.rstrip(chars)
RECURSIVE rstrip(_, _)
rstrip(s, chars) ==
    LET n == Len(s)
    IN  IF s = <<>> THEN s
        ELSE IF Len(s[n]) = 0 THEN rstrip(SubSeq(s, 1, n - 1), chars)
        ELSE IF unitAt(s[n], Len(s[n])) \in chars
        THEN rstrip(SubSeq(s, 1, n - 1) \o <<SubSeq(s[n], 1, Len(s[n]) - 1)>>, chars)
        ELSE s

\* str.strip(chars)
strip(s, chars) == rstrip(lstrip(s, chars), chars)

\* str.strip() with no argument strips white space: the characters for
\* which str.isspace() holds (U+0009..U+000D, U+001C..U+0020, U+0085,
\* U+00A0 and U+1680 are the ones a string here can hold)
WHITESPACE ==
    {"	", "\n", "", "", "\r", "", "", "", "", " ", "", " ", " "}

\* sep in s
contains(s, sep) == \E i \in 1..Len(s) : s[i] = sep

\* index of the first occurrence of sep in s (s contains sep)
find(s, sep) ==
    CHOOSE i \in 1..Len(s) : s[i] = sep /\ \A j \in 1..(i - 1) : s[j] # sep

\* str.split(sep): the list of pieces, always at least one
RECURSIVE split(_, _)
split(s, sep) ==
    IF ~contains(s, sep)
    THEN <<s>>
    ELSE <<SubSeq(s, 1, find(s, sep) - 1)>>
             \o split(SubSeq(s, find(s, sep) + 1, Len(s)), sep)

\* str.split(sep, 1): at most two pieces
split1(s, sep) ==
    IF ~contains(s, sep)
    THEN <<s>>
    ELSE <<SubSeq(s, 1, find(s, sep) - 1), SubSeq(s, find(s, sep) + 1, Len(s))>>

\* a prefix test that only looks at the length
startswith_lengthOnly(s, t) == Len(s) >= Len(t)

startswith(s, t) == Len(s) >= Len(t) /\ SubSeq(s, 1, Len(t)) = t

endswith(s, t) == Len(s) >= Len(t) /\ SubSeq(s, Len(s) - Len(t) + 1, Len(s)) = t

\* item.startswith("http"): the first four characters of the item
startswithHttp(s) == textStartswith(textOf(s), "http")

Range(f) == {f[i] : i \in DOMAIN f}

\* the characters a string holds as one unit, in the order of their code
\* points: CODE_POINTS[k].text holds the characters of the code points
\* CODE_POINTS[k].base, CODE_POINTS[k].base + 1, ... A string here holds
\* neither the grave accent nor, beyond U+007F, a unit whose value ends in
\* a byte below 128; the one character it holds that the table leaves out
\* is U+0000.
CODE_POINTS ==
    <<[base |-> 1, text |-> "	\n\r !\"#$%&'()*+,-./0123456789:;<=>?@ABCDEFGHIJKLMNOPQRSTUVWXYZ[\\]^_"],
      [base |-> 97, text |-> "abcdefghijklmnopqrstuvwxyz{|}~ ¡¢£¤¥¦§¨©ª«¬­®¯°±²³´µ¶·¸¹º»¼½¾¿ÀÁÂÃÄÅÆÇÈÉÊËÌÍÎÏÐÑÒÓÔÕÖ×ØÙÚÛÜÝÞßàáâãäåæçèéêëìíîïðñòóôõö÷øùúûüýþÿ"],
      [base |-> 384, text |-> "ƀƁƂƃƄƅƆƇƈƉƊƋƌƍƎƏƐƑƒƓƔƕƖƗƘƙƚƛƜƝƞƟƠơƢƣƤƥƦƧƨƩƪƫƬƭƮƯưƱƲƳƴƵƶƷƸƹƺƻƼƽƾƿǀǁǂǃǄǅǆǇǈǉǊǋǌǍǎǏǐǑǒǓǔǕǖǗǘǙǚǛǜǝǞǟǠǡǢǣǤǥǦǧǨǩǪǫǬǭǮǯǰǱǲǳǴǵǶǷǸǹǺǻǼǽǾǿ"],
      [base |-> 640, text |-> "ʀʁʂʃʄʅʆʇʈʉʊʋʌʍʎʏʐʑʒʓʔʕʖʗʘʙʚʛʜʝʞʟʠʡʢʣʤʥʦʧʨʩʪʫʬʭʮʯʰʱʲʳʴʵʶʷʸʹʺʻʼʽʾʿˀˁ˂˃˄˅ˆˇˈˉˊˋˌˍˎˏːˑ˒˓˔˕˖˗˘˙˚˛˜˝˞˟ˠˡˢˣˤ˥˦˧˨˩˪˫ˬ˭ˮ˯˰˱˲˳˴˵˶˷˸˹˺˻˼˽˾˿"],
      [base |-> 896, text |-> "΀΁΂΃΄΅Ά·ΈΉΊ΋Ό΍ΎΏΐΑΒΓΔΕΖΗΘΙΚΛΜΝΞΟΠΡ΢ΣΤΥΦΧΨΩΪΫάέήίΰαβγδεζηθικλμνξοπρςστυφχψωϊϋόύώϏϐϑϒϓϔϕϖϗϘϙϚϛϜϝϞϟϠϡϢϣϤϥϦϧϨϩϪϫϬϭϮϯϰϱϲϳϴϵ϶ϷϸϹϺϻϼϽϾϿ"],
      [base |-> 1152, text |-> "Ҁҁ҂҃҄҅҆҇҈҉ҊҋҌҍҎҏҐґҒғҔҕҖҗҘҙҚқҜҝҞҟҠҡҢңҤҥҦҧҨҩҪҫҬҭҮүҰұҲҳҴҵҶҷҸҹҺһҼҽҾҿӀӁӂӃӄӅӆӇӈӉӊӋӌӍӎӏӐӑӒӓӔӕӖӗӘәӚӛӜӝӞӟӠӡӢӣӤӥӦӧӨөӪӫӬӭӮӯӰӱӲӳӴӵӶӷӸӹӺӻӼӽӾӿ"],
      [base |-> 1408, text |-> "րցւփքօֆևֈ։֊֋֌֍֎֏֐ְֱֲֳִֵֶַָֹֺֻּֽ֑֖֛֢֣֤֥֦֧֪֚֭֮֒֓֔֕֗֘֙֜֝֞֟֠֡֨֩֫֬֯־ֿ׀ׁׂ׃ׅׄ׆ׇ׈׉׊׋׌׍׎׏אבגדהוזחטיךכלםמןנסעףפץצקרשת׫׬׭׮ׯװױײ׳״׵׶׷׸׹׺׻׼׽׾׿"],
      [base |-> 1664, text |-> "ڀځڂڃڄڅچڇڈډڊڋڌڍڎڏڐڑڒړڔڕږڗژڙښڛڜڝڞڟڠڡڢڣڤڥڦڧڨکڪګڬڭڮگڰڱڲڳڴڵڶڷڸڹںڻڼڽھڿۀہۂۃۄۅۆۇۈۉۊۋیۍێۏېۑےۓ۔ەۖۗۘۙۚۛۜ۝۞ۣ۟۠ۡۢۤۥۦۧۨ۩۪ۭ۫۬ۮۯ۰۱۲۳۴۵۶۷۸۹ۺۻۼ۽۾ۿ"],
      [base |-> 1920, text |-> "ހށނރބޅކއވމފދތލގޏސޑޒޓޔޕޖޗޘޙޚޛޜޝޞޟޠޡޢޣޤޥަާިީުޫެޭޮޯްޱ޲޳޴޵޶޷޸޹޺޻޼޽޾޿߀߁߂߃߄߅߆߇߈߉ߊߋߌߍߎߏߐߑߒߓߔߕߖߗߘߙߚߛߜߝߞߟߠߡߢߣߤߥߦߧߨߩߪ߲߫߬߭߮߯߰߱߳ߴߵ߶߷߸߹ߺ߻߼߽߾߿"],
      [base |-> 2176, text |-> "ࢀࢁࢂࢃࢄࢅࢆࢇ࢈ࢉࢊࢋࢌࢍࢎ࢏࢐࢑࢒࢓࢔࢕࢖࢙࢚࢛ࢗ࢘࢜࢝࢞࢟ࢠࢡࢢࢣࢤࢥࢦࢧࢨࢩࢪࢫࢬࢭࢮࢯࢰࢱࢲࢳࢴࢵࢶࢷࢸࢹࢺࢻࢼࢽࢾࢿࣀࣁࣂࣃࣄࣅࣆࣇࣈࣉ࣏࣐࣑࣒࣓࣊࣋࣌࣍࣎ࣔࣕࣖࣗࣘࣙࣚࣛࣜࣝࣞࣟ࣠࣡࣢ࣰࣱࣲࣣࣦࣩ࣭࣮࣯ࣶࣹࣺࣤࣥࣧࣨ࣪࣫࣬ࣳࣴࣵࣷࣸࣻࣼࣽࣾࣿ"],
      [base |-> 2432, text |-> "ঀঁংঃ঄অআইঈউঊঋঌ঍঎এঐ঑঒ওঔকখগঘঙচছজঝঞটঠডঢণতথদধন঩পফবভমযর঱ল঳঴঵শষসহ঺঻়ঽািীুূৃৄ৅৆েৈ৉৊োৌ্ৎ৏৐৑৒৓৔৕৖ৗ৘৙৚৛ড়ঢ়৞য়ৠৡৢৣ৤৥০১২৩৪৫৬৭৮৯ৰৱ৲৳৴৵৶৷৸৹৺৻ৼ৽৾৿"],
      [base |-> 2688, text |-> "઀ઁંઃ઄અઆઇઈઉઊઋઌઍ઎એઐઑ઒ઓઔકખગઘઙચછજઝઞટઠડઢણતથદધન઩પફબભમયર઱લળ઴વશષસહ઺઻઼ઽાિીુૂૃૄૅ૆ેૈૉ૊ોૌ્૎૏ૐ૑૒૓૔૕૖૗૘૙૚૛૜૝૞૟ૠૡૢૣ૤૥૦૧૨૩૪૫૬૭૮૯૰૱૲૳૴૵૶૷૸ૹૺૻૼ૽૾૿"],
      [base |-> 2944, text |-> "஀஁ஂஃ஄அஆஇஈஉஊ஋஌஍எஏஐ஑ஒஓஔக஖஗஘ஙச஛ஜ஝ஞட஠஡஢ணத஥஦஧நனப஫஬஭மயரறலளழவஶஷஸஹ஺஻஼஽ாிீுூ௃௄௅ெேை௉ொோௌ்௎௏ௐ௑௒௓௔௕௖ௗ௘௙௚௛௜௝௞௟௠௡௢௣௤௥௦௧௨௩௪௫௬௭௮௯௰௱௲௳௴௵௶௷௸௹௺௻௼௽௾௿"],
      [base |-> 3200, text |-> "ಀಁಂಃ಄ಅಆಇಈಉಊಋಌ಍ಎಏಐ಑ಒಓಔಕಖಗಘಙಚಛಜಝಞಟಠಡಢಣತಥದಧನ಩ಪಫಬಭಮಯರಱಲಳ಴ವಶಷಸಹ಺಻಼ಽಾಿೀುೂೃೄ೅ೆೇೈ೉ೊೋೌ್೎೏೐೑೒೓೔ೕೖ೗೘೙೚೛೜ೝೞ೟ೠೡೢೣ೤೥೦೧೨೩೪೫೬೭೮೯೰ೱೲೳ೴೵೶೷೸೹೺೻೼೽೾೿"],
      [base |-> 3456, text |-> "඀ඁංඃ඄අආඇඈඉඊඋඌඍඎඏඐඑඒඓඔඕඖ඗඘඙කඛගඝඞඟචඡජඣඤඥඦටඨඩඪණඬතථදධන඲ඳපඵබභමඹයර඼ල඾඿වශෂසහළෆ෇෈෉්෋෌෍෎ාැෑිීු෕ූ෗ෘෙේෛොෝෞෟ෠෡෢෣෤෥෦෧෨෩෪෫෬෭෮෯෰෱ෲෳ෴෵෶෷෸෹෺෻෼෽෾෿"],
      [base |-> 3712, text |-> "຀ກຂ຃ຄ຅ຆງຈຉຊ຋ຌຍຎຏຐຑຒຓດຕຖທຘນບປຜຝພຟຠມຢຣ຤ລ຦ວຨຩສຫຬອຮຯະັາຳິີຶື຺ຸູົຼຽ຾຿ເແໂໃໄ໅ໆ໇່້໊໋໌ໍ໎໏໐໑໒໓໔໕໖໗໘໙໚໛ໜໝໞໟ໠໡໢໣໤໥໦໧໨໩໪໫໬໭໮໯໰໱໲໳໴໵໶໷໸໹໺໻໼໽໾໿"],
      [base |-> 3968, text |-> "྄ཱྀྀྂྃ྅྆྇ྈྉྊྋྌྍྎྏྐྑྒྒྷྔྕྖྗ྘ྙྚྛྜྜྷྞྟྠྡྡྷྣྤྥྦྦྷྨྩྪྫྫྷྭྮྯྰྱྲླྴྵྶྷྸྐྵྺྻྼ྽྾྿࿀࿁࿂࿃࿄࿅࿆࿇࿈࿉࿊࿋࿌࿍࿎࿏࿐࿑࿒࿓࿔࿕࿖࿗࿘࿙࿚࿛࿜࿝࿞࿟࿠࿡࿢࿣࿤࿥࿦࿧࿨࿩࿪࿫࿬࿭࿮࿯࿰࿱࿲࿳࿴࿵࿶࿷࿸࿹࿺࿻࿼࿽࿾࿿"],
      [base |-> 4224, text |-> "ႀႁႂႃႄႅႆႇႈႉႊႋႌႍႎႏ႐႑႒႓႔႕႖႗႘႙ႚႛႜႝ႞႟ႠႡႢႣႤႥႦႧႨႩႪႫႬႭႮႯႰႱႲႳႴႵႶႷႸႹႺႻႼႽႾႿჀჁჂჃჄჅ჆Ⴧ჈჉჊჋჌Ⴭ჎჏აბგდევზთიკლმნოპჟრსტუფქღყშჩცძწჭხჯჰჱჲჳჴჵჶჷჸჹჺ჻ჼჽჾჿ"],
      [base |-> 4480, text |-> "ᆀᆁᆂᆃᆄᆅᆆᆇᆈᆉᆊᆋᆌᆍᆎᆏᆐᆑᆒᆓᆔᆕᆖᆗᆘᆙᆚᆛᆜᆝᆞᆟᆠᆡᆢᆣᆤᆥᆦᆧᆨᆩᆪᆫᆬᆭᆮᆯᆰᆱᆲᆳᆴᆵᆶᆷᆸᆹᆺᆻᆼᆽᆾᆿᇀᇁᇂᇃᇄᇅᇆᇇᇈᇉᇊᇋᇌᇍᇎᇏᇐᇑᇒᇓᇔᇕᇖᇗᇘᇙᇚᇛᇜᇝᇞᇟᇠᇡᇢᇣᇤᇥᇦᇧᇨᇩᇪᇫᇬᇭᇮᇯᇰᇱᇲᇳᇴᇵᇶᇷᇸᇹᇺᇻᇼᇽᇾᇿ"],
      [base |-> 4736, text |-> "ኀኁኂኃኄኅኆኇኈ኉ኊኋኌኍ኎኏ነኑኒናኔንኖኗኘኙኚኛኜኝኞኟአኡኢኣኤእኦኧከኩኪካኬክኮኯኰ኱ኲኳኴኵ኶኷ኸኹኺኻኼኽኾ኿ዀ዁ዂዃዄዅ዆዇ወዉዊዋዌውዎዏዐዑዒዓዔዕዖ዗ዘዙዚዛዜዝዞዟዠዡዢዣዤዥዦዧየዩዪያዬይዮዯደዱዲዳዴድዶዷዸዹዺዻዼዽዾዿ"],
      [base |-> 4992, text |-> "ᎀᎁᎂᎃᎄᎅᎆᎇᎈᎉᎊᎋᎌᎍᎎᎏ᎐᎑᎒᎓᎔᎕᎖᎗᎘᎙᎚᎛᎜᎝᎞᎟ᎠᎡᎢᎣᎤᎥᎦᎧᎨᎩᎪᎫᎬᎭᎮᎯᎰᎱᎲᎳᎴᎵᎶᎷᎸᎹᎺᎻᎼᎽᎾᎿᏀᏁᏂᏃᏄᏅᏆᏇᏈᏉᏊᏋᏌᏍᏎᏏᏐᏑᏒᏓᏔᏕᏖᏗᏘᏙᏚᏛᏜᏝᏞᏟᏠᏡᏢᏣᏤᏥᏦᏧᏨᏩᏪᏫᏬᏭᏮᏯᏰᏱᏲᏳᏴᏵ᏶᏷ᏸᏹᏺᏻᏼᏽ᏾᏿"],
      [base |-> 5248, text |-> "ᒀᒁᒂᒃᒄᒅᒆᒇᒈᒉᒊᒋᒌᒍᒎᒏᒐᒑᒒᒓᒔᒕᒖᒗᒘᒙᒚᒛᒜᒝᒞᒟᒠᒡᒢᒣᒤᒥᒦᒧᒨᒩᒪᒫᒬᒭᒮᒯᒰᒱᒲᒳᒴᒵᒶᒷᒸᒹᒺᒻᒼᒽᒾᒿᓀᓁᓂᓃᓄᓅᓆᓇᓈᓉᓊᓋᓌᓍᓎᓏᓐᓑᓒᓓᓔᓕᓖᓗᓘᓙᓚᓛᓜᓝᓞᓟᓠᓡᓢᓣᓤᓥᓦᓧᓨᓩᓪᓫᓬᓭᓮᓯᓰᓱᓲᓳᓴᓵᓶᓷᓸᓹᓺᓻᓼᓽᓾᓿ"],
      [base |-> 5504, text |-> "ᖀᖁᖂᖃᖄᖅᖆᖇᖈᖉᖊᖋᖌᖍᖎᖏᖐᖑᖒᖓᖔᖕᖖᖗᖘᖙᖚᖛᖜᖝᖞᖟᖠᖡᖢᖣᖤᖥᖦᖧᖨᖩᖪᖫᖬᖭᖮᖯᖰᖱᖲᖳᖴᖵᖶᖷᖸᖹᖺᖻᖼᖽᖾᖿᗀᗁᗂᗃᗄᗅᗆᗇᗈᗉᗊᗋᗌᗍᗎᗏᗐᗑᗒᗓᗔᗕᗖᗗᗘᗙᗚᗛᗜᗝᗞᗟᗠᗡᗢᗣᗤᗥᗦᗧᗨᗩᗪᗫᗬᗭᗮᗯᗰᗱᗲᗳᗴᗵᗶᗷᗸᗹᗺᗻᗼᗽᗾᗿ"],
      [base |-> 5760, text |-> " ᚁᚂᚃᚄᚅᚆᚇᚈᚉᚊᚋᚌᚍᚎᚏᚐᚑᚒᚓᚔᚕᚖᚗᚘᚙᚚ᚛᚜᚝᚞᚟ᚠᚡᚢᚣᚤᚥᚦᚧᚨᚩᚪᚫᚬᚭᚮᚯᚰᚱᚲᚳᚴᚵᚶᚷᚸᚹᚺᚻᚼᚽᚾᚿᛀᛁᛂᛃᛄᛅᛆᛇᛈᛉᛊᛋᛌᛍᛎᛏᛐᛑᛒᛓᛔᛕᛖᛗᛘᛙᛚᛛᛜᛝᛞᛟᛠᛡᛢᛣᛤᛥᛦᛧᛨᛩᛪ᛫᛬᛭ᛮᛯᛰᛱᛲᛳᛴᛵᛶᛷᛸ᛹᛺᛻᛼᛽᛾᛿"],
      [base |-> 6016, text |-> "កខគឃងចឆជឈញដឋឌឍណតថទធនបផពភមយរលវឝឞសហឡអឣឤឥឦឧឨឩឪឫឬឭឮឯឰឱឲឳ឴឵ាិីឹឺុូួើឿៀេែៃោៅំះៈ៉៊់៌៍៎៏័៑្៓។៕៖ៗ៘៙៚៛ៜ៝៞៟០១២៣៤៥៦៧៨៩៪៫៬៭៮៯៰៱៲៳៴៵៶៷៸៹៺៻៼៽៾៿"],
      [base |-> 6272, text |-> "ᢀᢁᢂᢃᢄᢅᢆᢇᢈᢉᢊᢋᢌᢍᢎᢏᢐᢑᢒᢓᢔᢕᢖᢗᢘᢙᢚᢛᢜᢝᢞᢟᢠᢡᢢᢣᢤᢥᢦᢧᢨᢩᢪ᢫᢬᢭᢮᢯ᢰᢱᢲᢳᢴᢵᢶᢷᢸᢹᢺᢻᢼᢽᢾᢿᣀᣁᣂᣃᣄᣅᣆᣇᣈᣉᣊᣋᣌᣍᣎᣏᣐᣑᣒᣓᣔᣕᣖᣗᣘᣙᣚᣛᣜᣝᣞᣟᣠᣡᣢᣣᣤᣥᣦᣧᣨᣩᣪᣫᣬᣭᣮᣯᣰᣱᣲᣳᣴᣵ᣶᣷᣸᣹᣺᣻᣼᣽᣾᣿"],
      [base |-> 6528, text |-> "ᦀᦁᦂᦃᦄᦅᦆᦇᦈᦉᦊᦋᦌᦍᦎᦏᦐᦑᦒᦓᦔᦕᦖᦗᦘᦙᦚᦛᦜᦝᦞᦟᦠᦡᦢᦣᦤᦥᦦᦧᦨᦩᦪᦫ᦬᦭᦮᦯ᦰᦱᦲᦳᦴᦵᦶᦷᦸᦹᦺᦻᦼᦽᦾᦿᧀᧁᧂᧃᧄᧅᧆᧇᧈᧉ᧊᧋᧌᧍᧎᧏᧐᧑᧒᧓᧔᧕᧖᧗᧘᧙᧚᧛᧜᧝᧞᧟᧠᧡᧢᧣᧤᧥᧦᧧᧨᧩᧪᧫᧬᧭᧮᧯᧰᧱᧲᧳᧴᧵᧶᧷᧸᧹᧺᧻᧼᧽᧾᧿"],
      [base |-> 6784, text |-> "᪀᪁᪂᪃᪄᪅᪆᪇᪈᪉᪊᪋᪌᪍᪎᪏᪐᪑᪒᪓᪔᪕᪖᪗᪘᪙᪚᪛᪜᪝᪞᪟᪠᪡᪢᪣᪤᪥᪦ᪧ᪨᪩᪪᪫᪬᪭᪮᪯᪵᪶᪷᪸᪹᪺᪽᪰᪱᪲᪳᪴᪻᪼᪾ᪿᫀ᫃᫄᫊᫁᫂᫅᫆᫇᫈᫉᫋ᫌᫍᫎ᫏᫐᫑᫒᫓᫔᫕᫖᫗᫘᫙᫚᫛᫜᫝᫞᫟᫠᫡᫢᫣᫤᫥᫦᫧᫨᫩᫪᫫᫬᫭᫮᫯᫰᫱᫲᫳᫴᫵᫶᫷᫸᫹᫺᫻᫼᫽᫾᫿"],
      [base |-> 7040, text |-> "ᮀᮁᮂᮃᮄᮅᮆᮇᮈᮉᮊᮋᮌᮍᮎᮏᮐᮑᮒᮓᮔᮕᮖᮗᮘᮙᮚᮛᮜᮝᮞᮟᮠᮡᮢᮣᮤᮥᮦᮧᮨᮩ᮪᮫ᮬᮭᮮᮯ᮰᮱᮲᮳᮴᮵᮶᮷᮸᮹ᮺᮻᮼᮽᮾᮿᯀᯁᯂᯃᯄᯅᯆᯇᯈᯉᯊᯋᯌᯍᯎᯏᯐᯑᯒᯓᯔᯕᯖᯗᯘᯙᯚᯛᯜᯝᯞᯟᯠᯡᯢᯣᯤᯥ᯦ᯧᯨᯩᯪᯫᯬᯭᯮᯯᯰᯱ᯲᯳᯴᯵᯶᯷᯸᯹᯺᯻᯼᯽᯾᯿"],
      [base |-> 7296, text |-> "ᲀᲁᲂᲃᲄᲅᲆᲇᲈᲉᲊ᲋᲌᲍᲎᲏ᲐᲑᲒᲓᲔᲕᲖᲗᲘᲙᲚᲛᲜᲝᲞᲟᲠᲡᲢᲣᲤᲥᲦᲧᲨᲩᲪᲫᲬᲭᲮᲯᲰᲱᲲᲳᲴᲵᲶᲷᲸᲹᲺ᲻᲼ᲽᲾᲿ᳀᳁᳂᳃᳄᳅᳆᳇᳈᳉᳊᳋᳌᳍᳎᳏᳐᳑᳒᳓᳔᳕᳖᳗᳘᳙᳜᳝᳞᳟᳚᳛᳠᳡᳢᳣᳤᳥᳦᳧᳨ᳩᳪᳫᳬ᳭ᳮᳯᳰᳱᳲᳳ᳴ᳵᳶ᳷᳸᳹ᳺ᳻᳼᳽᳾᳿"],
      [base |-> 7552, text |-> "ᶀᶁᶂᶃᶄᶅᶆᶇᶈᶉᶊᶋᶌᶍᶎᶏᶐᶑᶒᶓᶔᶕᶖᶗᶘᶙᶚᶛᶜᶝᶞᶟᶠᶡᶢᶣᶤᶥᶦᶧᶨᶩᶪᶫᶬᶭᶮᶯᶰᶱᶲᶳᶴᶵᶶᶷᶸᶹᶺᶻᶼᶽᶾᶿ᷐᷎᷺᷂᷊᷏᷹᷽᷿᷷᷸᷀᷁᷃᷄᷅᷆᷇᷈᷉᷋᷌᷑᷒ᷓᷔᷕᷖᷗᷘᷙᷚᷛᷜᷝᷞᷟᷠᷡᷢᷣᷤᷥᷦᷧᷨᷩᷪᷫᷬᷭᷮᷯᷰᷱᷲᷳᷴ᷵᷻᷾᷶᷼᷍"],
      [base |-> 7808, text |-> "ẀẁẂẃẄẅẆẇẈẉẊẋẌẍẎẏẐẑẒẓẔẕẖẗẘẙẚẛẜẝẞẟẠạẢảẤấẦầẨẩẪẫẬậẮắẰằẲẳẴẵẶặẸẹẺẻẼẽẾếỀềỂểỄễỆệỈỉỊịỌọỎỏỐốỒồỔổỖỗỘộỚớỜờỞởỠỡỢợỤụỦủỨứỪừỬửỮữỰựỲỳỴỵỶỷỸỹỺỻỼỽỾỿ"],
      [base |-> 8064, text |-> "ᾀᾁᾂᾃᾄᾅᾆᾇᾈᾉᾊᾋᾌᾍᾎᾏᾐᾑᾒᾓᾔᾕᾖᾗᾘᾙᾚᾛᾜᾝᾞᾟᾠᾡᾢᾣᾤᾥᾦᾧᾨᾩᾪᾫᾬᾭᾮᾯᾰᾱᾲᾳᾴ᾵ᾶᾷᾸᾹᾺΆᾼ᾽ι᾿῀῁ῂῃῄ῅ῆῇῈΈῊΉῌ῍῎῏ῐῑῒΐ῔῕ῖῗῘῙῚΊ῜῝῞῟ῠῡῢΰῤῥῦῧῨῩῪΎῬ῭΅`῰῱ῲῳῴ῵ῶῷῸΌῺΏῼ´῾῿"],
      [base |-> 8320, text |-> "₀₁₂₃₄₅₆₇₈₉₊₋₌₍₎₏ₐₑₒₓₔₕₖₗₘₙₚₛₜ₝₞₟₠₡₢₣₤₥₦₧₨₩₪₫€₭₮₯₰₱₲₳₴₵₶₷₸₹₺₻₼₽₾₿⃀⃁⃂⃃⃄⃅⃆⃇⃈⃉⃊⃋⃌⃍⃎⃏⃒⃓⃘⃙⃚⃐⃑⃔⃕⃖⃗⃛⃜⃝⃞⃟⃠⃡⃢⃣⃤⃥⃦⃪⃫⃨⃬⃭⃮⃯⃧⃩⃰⃱⃲⃳⃴⃵⃶⃷⃸⃹⃺⃻⃼⃽⃾⃿"],
      [base |-> 8576, text |-> "ↀↁↂↃↄↅↆↇↈ↉↊↋↌↍↎↏←↑→↓↔↕↖↗↘↙↚↛↜↝↞↟↠↡↢↣↤↥↦↧↨↩↪↫↬↭↮↯↰↱↲↳↴↵↶↷↸↹↺↻↼↽↾↿⇀⇁⇂⇃⇄⇅⇆⇇⇈⇉⇊⇋⇌⇍⇎⇏⇐⇑⇒⇓⇔⇕⇖⇗⇘⇙⇚⇛⇜⇝⇞⇟⇠⇡⇢⇣⇤⇥⇦⇧⇨⇩⇪⇫⇬⇭⇮⇯⇰⇱⇲⇳⇴⇵⇶⇷⇸⇹⇺⇻⇼⇽⇾⇿"],
      [base |-> 8832, text |-> "⊀⊁⊂⊃⊄⊅⊆⊇⊈⊉⊊⊋⊌⊍⊎⊏⊐⊑⊒⊓⊔⊕⊖⊗⊘⊙⊚⊛⊜⊝⊞⊟⊠⊡⊢⊣⊤⊥⊦⊧⊨⊩⊪⊫⊬⊭⊮⊯⊰⊱⊲⊳⊴⊵⊶⊷⊸⊹⊺⊻⊼⊽⊾⊿⋀⋁⋂⋃⋄⋅⋆⋇⋈⋉⋊⋋⋌⋍⋎⋏⋐⋑⋒⋓⋔⋕⋖⋗⋘⋙⋚⋛⋜⋝⋞⋟⋠⋡⋢⋣⋤⋥⋦⋧⋨⋩⋪⋫⋬⋭⋮⋯⋰⋱⋲⋳⋴⋵⋶⋷⋸⋹⋺⋻⋼⋽⋾⋿"],
      [base |-> 9088, text |-> "⎀⎁⎂⎃⎄⎅⎆⎇⎈⎉⎊⎋⎌⎍⎎⎏⎐⎑⎒⎓⎔⎕⎖⎗⎘⎙⎚⎛⎜⎝⎞⎟⎠⎡⎢⎣⎤⎥⎦⎧⎨⎩⎪⎫⎬⎭⎮⎯⎰⎱⎲⎳⎴⎵⎶⎷⎸⎹⎺⎻⎼⎽⎾⎿⏀⏁⏂⏃⏄⏅⏆⏇⏈⏉⏊⏋⏌⏍⏎⏏⏐⏑⏒⏓⏔⏕⏖⏗⏘⏙⏚⏛⏜⏝⏞⏟⏠⏡⏢⏣⏤⏥⏦⏧⏨⏩⏪⏫⏬⏭⏮⏯⏰⏱⏲⏳⏴⏵⏶⏷⏸⏹⏺⏻⏼⏽⏾⏿"],
      [base |-> 9344, text |-> "⒀⒁⒂⒃⒄⒅⒆⒇⒈⒉⒊⒋⒌⒍⒎⒏⒐⒑⒒⒓⒔⒕⒖⒗⒘⒙⒚⒛⒜⒝⒞⒟⒠⒡⒢⒣⒤⒥⒦⒧⒨⒩⒪⒫⒬⒭⒮⒯⒰⒱⒲⒳⒴⒵ⒶⒷⒸⒹⒺⒻⒼⒽⒾⒿⓀⓁⓂⓃⓄⓅⓆⓇⓈⓉⓊⓋⓌⓍⓎⓏⓐⓑⓒⓓⓔⓕⓖⓗⓘⓙⓚⓛⓜⓝⓞⓟⓠⓡⓢⓣⓤⓥⓦⓧⓨⓩ⓪⓫⓬⓭⓮⓯⓰⓱⓲⓳⓴⓵⓶⓷⓸⓹⓺⓻⓼⓽⓾⓿"],
      [base |-> 9600, text |-> "▀▁▂▃▄▅▆▇█▉▊▋▌▍▎▏▐░▒▓▔▕▖▗▘▙▚▛▜▝▞▟■□▢▣▤▥▦▧▨▩▪▫▬▭▮▯▰▱▲△▴▵▶▷▸▹►▻▼▽▾▿◀◁◂◃◄◅◆◇◈◉◊○◌◍◎●◐◑◒◓◔◕◖◗◘◙◚◛◜◝◞◟◠◡◢◣◤◥◦◧◨◩◪◫◬◭◮◯◰◱◲◳◴◵◶◷◸◹◺◻◼◽◾◿"],
      [base |-> 9856, text |-> "⚀⚁⚂⚃⚄⚅⚆⚇⚈⚉⚊⚋⚌⚍⚎⚏⚐⚑⚒⚓⚔⚕⚖⚗⚘⚙⚚⚛⚜⚝⚞⚟⚠⚡⚢⚣⚤⚥⚦⚧⚨⚩⚪⚫⚬⚭⚮⚯⚰⚱⚲⚳⚴⚵⚶⚷⚸⚹⚺⚻⚼⚽⚾⚿⛀⛁⛂⛃⛄⛅⛆⛇⛈⛉⛊⛋⛌⛍⛎⛏⛐⛑⛒⛓⛔⛕⛖⛗⛘⛙⛚⛛⛜⛝⛞⛟⛠⛡⛢⛣⛤⛥⛦⛧⛨⛩⛪⛫⛬⛭⛮⛯⛰⛱⛲⛳⛴⛵⛶⛷⛸⛹⛺⛻⛼⛽⛾⛿"],
      [base |-> 10112, text |-> "➀➁➂➃➄➅➆➇➈➉➊➋➌➍➎➏➐➑➒➓➔➕➖➗➘➙➚➛➜➝➞➟➠➡➢➣➤➥➦➧➨➩➪➫➬➭➮➯➰➱➲➳➴➵➶➷➸➹➺➻➼➽➾➿⟀⟁⟂⟃⟄⟅⟆⟇⟈⟉⟊⟋⟌⟍⟎⟏⟐⟑⟒⟓⟔⟕⟖⟗⟘⟙⟚⟛⟜⟝⟞⟟⟠⟡⟢⟣⟤⟥⟦⟧⟨⟩⟪⟫⟬⟭⟮⟯⟰⟱⟲⟳⟴⟵⟶⟷⟸⟹⟺⟻⟼⟽⟾⟿"],
      [base |-> 10368, text |-> "⢀⢁⢂⢃⢄⢅⢆⢇⢈⢉⢊⢋⢌⢍⢎⢏⢐⢑⢒⢓⢔⢕⢖⢗⢘⢙⢚⢛⢜⢝⢞⢟⢠⢡⢢⢣⢤⢥⢦⢧⢨⢩⢪⢫⢬⢭⢮⢯⢰⢱⢲⢳⢴⢵⢶⢷⢸⢹⢺⢻⢼⢽⢾⢿⣀⣁⣂⣃⣄⣅⣆⣇⣈⣉⣊⣋⣌⣍⣎⣏⣐⣑⣒⣓⣔⣕⣖⣗⣘⣙⣚⣛⣜⣝⣞⣟⣠⣡⣢⣣⣤⣥⣦⣧⣨⣩⣪⣫⣬⣭⣮⣯⣰⣱⣲⣳⣴⣵⣶⣷⣸⣹⣺⣻⣼⣽⣾⣿"],
      [base |-> 10624, text |-> "⦀⦁⦂⦃⦄⦅⦆⦇⦈⦉⦊⦋⦌⦍⦎⦏⦐⦑⦒⦓⦔⦕⦖⦗⦘⦙⦚⦛⦜⦝⦞⦟⦠⦡⦢⦣⦤⦥⦦⦧⦨⦩⦪⦫⦬⦭⦮⦯⦰⦱⦲⦳⦴⦵⦶⦷⦸⦹⦺⦻⦼⦽⦾⦿⧀⧁⧂⧃⧄⧅⧆⧇⧈⧉⧊⧋⧌⧍⧎⧏⧐⧑⧒⧓⧔⧕⧖⧗⧘⧙⧚⧛⧜⧝⧞⧟⧠⧡⧢⧣⧤⧥⧦⧧⧨⧩⧪⧫⧬⧭⧮⧯⧰⧱⧲⧳⧴⧵⧶⧷⧸⧹⧺⧻⧼⧽⧾⧿"],
      [base |-> 10880, text |-> "⪀⪁⪂⪃⪄⪅⪆⪇⪈⪉⪊⪋⪌⪍⪎⪏⪐⪑⪒⪓⪔⪕⪖⪗⪘⪙⪚⪛⪜⪝⪞⪟⪠⪡⪢⪣⪤⪥⪦⪧⪨⪩⪪⪫⪬⪭⪮⪯⪰⪱⪲⪳⪴⪵⪶⪷⪸⪹⪺⪻⪼⪽⪾⪿⫀⫁⫂⫃⫄⫅⫆⫇⫈⫉⫊⫋⫌⫍⫎⫏⫐⫑⫒⫓⫔⫕⫖⫗⫘⫙⫚⫛⫝̸⫝⫞⫟⫠⫡⫢⫣⫤⫥⫦⫧⫨⫩⫪⫫⫬⫭⫮⫯⫰⫱⫲⫳⫴⫵⫶⫷⫸⫹⫺⫻⫼⫽⫾⫿"],
      [base |-> 11136, text |-> "⮀⮁⮂⮃⮄⮅⮆⮇⮈⮉⮊⮋⮌⮍⮎⮏⮐⮑⮒⮓⮔⮕⮖⮗⮘⮙⮚⮛⮜⮝⮞⮟⮠⮡⮢⮣⮤⮥⮦⮧⮨⮩⮪⮫⮬⮭⮮⮯⮰⮱⮲⮳⮴⮵⮶⮷⮸⮹⮺⮻⮼⮽⮾⮿⯀⯁⯂⯃⯄⯅⯆⯇⯈⯉⯊⯋⯌⯍⯎⯏⯐⯑⯒⯓⯔⯕⯖⯗⯘⯙⯚⯛⯜⯝⯞⯟⯠⯡⯢⯣⯤⯥⯦⯧⯨⯩⯪⯫⯬⯭⯮⯯⯰⯱⯲⯳⯴⯵⯶⯷⯸⯹⯺⯻⯼⯽⯾⯿"],
      [base |-> 11392, text |-> "ⲀⲁⲂⲃⲄⲅⲆⲇⲈⲉⲊⲋⲌⲍⲎⲏⲐⲑⲒⲓⲔⲕⲖⲗⲘⲙⲚⲛⲜⲝⲞⲟⲠⲡⲢⲣⲤⲥⲦⲧⲨⲩⲪⲫⲬⲭⲮⲯⲰⲱⲲⲳⲴⲵⲶⲷⲸⲹⲺⲻⲼⲽⲾⲿⳀⳁⳂⳃⳄⳅⳆⳇⳈⳉⳊⳋⳌⳍⳎⳏⳐⳑⳒⳓⳔⳕⳖⳗⳘⳙⳚⳛⳜⳝⳞⳟⳠⳡⳢⳣⳤ⳥⳦⳧⳨⳩⳪ⳫⳬⳭⳮ⳯⳰⳱Ⳳⳳ⳴⳵⳶⳷⳸⳹⳺⳻⳼⳽⳾⳿"],
      [base |-> 11648, text |-> "ⶀⶁⶂⶃⶄⶅⶆⶇⶈⶉⶊⶋⶌⶍⶎⶏⶐⶑⶒⶓⶔⶕⶖ⶗⶘⶙⶚⶛⶜⶝⶞⶟ⶠⶡⶢⶣⶤⶥⶦ⶧ⶨⶩⶪⶫⶬⶭⶮ⶯ⶰⶱⶲⶳⶴⶵⶶ⶷ⶸⶹⶺⶻⶼⶽⶾ⶿ⷀⷁⷂⷃⷄⷅⷆ⷇ⷈⷉⷊⷋⷌⷍⷎ⷏ⷐⷑⷒⷓⷔⷕⷖ⷗ⷘⷙⷚⷛⷜⷝⷞ⷟ⷠⷡⷢⷣⷤⷥⷦⷧⷨⷩⷪⷫⷬⷭⷮⷯⷰⷱⷲⷳⷴⷵⷶⷷⷸⷹⷺⷻⷼⷽⷾⷿ"],
      [base |-> 11904, text |-> "⺀⺁⺂⺃⺄⺅⺆⺇⺈⺉⺊⺋⺌⺍⺎⺏⺐⺑⺒⺓⺔⺕⺖⺗⺘⺙⺚⺛⺜⺝⺞⺟⺠⺡⺢⺣⺤⺥⺦⺧⺨⺩⺪⺫⺬⺭⺮⺯⺰⺱⺲⺳⺴⺵⺶⺷⺸⺹⺺⺻⺼⺽⺾⺿⻀⻁⻂⻃⻄⻅⻆⻇⻈⻉⻊⻋⻌⻍⻎⻏⻐⻑⻒⻓⻔⻕⻖⻗⻘⻙⻚⻛⻜⻝⻞⻟⻠⻡⻢⻣⻤⻥⻦⻧⻨⻩⻪⻫⻬⻭⻮⻯⻰⻱⻲⻳⻴⻵⻶⻷⻸⻹⻺⻻⻼⻽⻾⻿"],
      [base |-> 12160, text |-> "⾀⾁⾂⾃⾄⾅⾆⾇⾈⾉⾊⾋⾌⾍⾎⾏⾐⾑⾒⾓⾔⾕⾖⾗⾘⾙⾚⾛⾜⾝⾞⾟⾠⾡⾢⾣⾤⾥⾦⾧⾨⾩⾪⾫⾬⾭⾮⾯⾰⾱⾲⾳⾴⾵⾶⾷⾸⾹⾺⾻⾼⾽⾾⾿⿀⿁⿂⿃⿄⿅⿆⿇⿈⿉⿊⿋⿌⿍⿎⿏⿐⿑⿒⿓⿔⿕⿖⿗⿘⿙⿚⿛⿜⿝⿞⿟⿠⿡⿢⿣⿤⿥⿦⿧⿨⿩⿪⿫⿬⿭⿮⿯⿰⿱⿲⿳⿴⿵⿶⿷⿸⿹⿺⿻⿼⿽⿾⿿"],
      [base |-> 12416, text |-> "むめもゃやゅゆょよらりるれろゎわゐゑをんゔゕゖ゗゘゙゚゛゜ゝゞゟ゠ァアィイゥウェエォオカガキギクグケゲコゴサザシジスズセゼソゾタダチヂッツヅテデトドナニヌネノハバパヒビピフブプヘベペホボポマミムメモャヤュユョヨラリルレロヮワヰヱヲンヴヵヶヷヸヹヺ・ーヽヾヿ"],
      [base |-> 12672, text |-> "ㆀㆁㆂㆃㆄㆅㆆㆇㆈㆉㆊㆋㆌㆍㆎ㆏㆐㆑㆒㆓㆔㆕㆖㆗㆘㆙㆚㆛㆜㆝㆞㆟ㆠㆡㆢㆣㆤㆥㆦㆧㆨㆩㆪㆫㆬㆭㆮㆯㆰㆱㆲㆳㆴㆵㆶㆷㆸㆹㆺㆻㆼㆽㆾㆿ㇀㇁㇂㇃㇄㇅㇆㇇㇈㇉㇊㇋㇌㇍㇎㇏㇐㇑㇒㇓㇔㇕㇖㇗㇘㇙㇚㇛㇜㇝㇞㇟㇠㇡㇢㇣㇤㇥㇦㇧㇨㇩㇪㇫㇬㇭㇮㇯ㇰㇱㇲㇳㇴㇵㇶㇷㇸㇹㇺㇻㇼㇽㇾㇿ"],
      [base |-> 12928, text |-> "㊀㊁㊂㊃㊄㊅㊆㊇㊈㊉㊊㊋㊌㊍㊎㊏㊐㊑㊒㊓㊔㊕㊖㊗㊘㊙㊚㊛㊜㊝㊞㊟㊠㊡㊢㊣㊤㊥㊦㊧㊨㊩㊪㊫㊬㊭㊮㊯㊰㊱㊲㊳㊴㊵㊶㊷㊸㊹㊺㊻㊼㊽㊾㊿㋀㋁㋂㋃㋄㋅㋆㋇㋈㋉㋊㋋㋌㋍㋎㋏㋐㋑㋒㋓㋔㋕㋖㋗㋘㋙㋚㋛㋜㋝㋞㋟㋠㋡㋢㋣㋤㋥㋦㋧㋨㋩㋪㋫㋬㋭㋮㋯㋰㋱㋲㋳㋴㋵㋶㋷㋸㋹㋺㋻㋼㋽㋾㋿"],
      [base |-> 13184, text |-> "㎀㎁㎂㎃㎄㎅㎆㎇㎈㎉㎊㎋㎌㎍㎎㎏㎐㎑㎒㎓㎔㎕㎖㎗㎘㎙㎚㎛㎜㎝㎞㎟㎠㎡㎢㎣㎤㎥㎦㎧㎨㎩㎪㎫㎬㎭㎮㎯㎰㎱㎲㎳㎴㎵㎶㎷㎸㎹㎺㎻㎼㎽㎾㎿㏀㏁㏂㏃㏄㏅㏆㏇㏈㏉㏊㏋㏌㏍㏎㏏㏐㏑㏒㏓㏔㏕㏖㏗㏘㏙㏚㏛㏜㏝㏞㏟㏠㏡㏢㏣㏤㏥㏦㏧㏨㏩㏪㏫㏬㏭㏮㏯㏰㏱㏲㏳㏴㏵㏶㏷㏸㏹㏺㏻㏼㏽㏾㏿"],
      [base |-> 13440, text |-> "㒀㒁㒂㒃㒄㒅㒆㒇㒈㒉㒊㒋㒌㒍㒎㒏㒐㒑㒒㒓㒔㒕㒖㒗㒘㒙㒚㒛㒜㒝㒞㒟㒠㒡㒢㒣㒤㒥㒦㒧㒨㒩㒪㒫㒬㒭㒮㒯㒰㒱㒲㒳㒴㒵㒶㒷㒸㒹㒺㒻㒼㒽㒾㒿㓀㓁㓂㓃㓄㓅㓆㓇㓈㓉㓊㓋㓌㓍㓎㓏㓐㓑㓒㓓㓔㓕㓖㓗㓘㓙㓚㓛㓜㓝㓞㓟㓠㓡㓢㓣㓤㓥㓦㓧㓨㓩㓪㓫㓬㓭㓮㓯㓰㓱㓲㓳㓴㓵㓶㓷㓸㓹㓺㓻㓼㓽㓾㓿"],
      [base |-> 13696, text |-> "㖀㖁㖂㖃㖄㖅㖆㖇㖈㖉㖊㖋㖌㖍㖎㖏㖐㖑㖒㖓㖔㖕㖖㖗㖘㖙㖚㖛㖜㖝㖞㖟㖠㖡㖢㖣㖤㖥㖦㖧㖨㖩㖪㖫㖬㖭㖮㖯㖰㖱㖲㖳㖴㖵㖶㖷㖸㖹㖺㖻㖼㖽㖾㖿㗀㗁㗂㗃㗄㗅㗆㗇㗈㗉㗊㗋㗌㗍㗎㗏㗐㗑㗒㗓㗔㗕㗖㗗㗘㗙㗚㗛㗜㗝㗞㗟㗠㗡㗢㗣㗤㗥㗦㗧㗨㗩㗪㗫㗬㗭㗮㗯㗰㗱㗲㗳㗴㗵㗶㗷㗸㗹㗺㗻㗼㗽㗾㗿"],
      [base |-> 13952, text |-> "㚀㚁㚂㚃㚄㚅㚆㚇㚈㚉㚊㚋㚌㚍㚎㚏㚐㚑㚒㚓㚔㚕㚖㚗㚘㚙㚚㚛㚜㚝㚞㚟㚠㚡㚢㚣㚤㚥㚦㚧㚨㚩㚪㚫㚬㚭㚮㚯㚰㚱㚲㚳㚴㚵㚶㚷㚸㚹㚺㚻㚼㚽㚾㚿㛀㛁㛂㛃㛄㛅㛆㛇㛈㛉㛊㛋㛌㛍㛎㛏㛐㛑㛒㛓㛔㛕㛖㛗㛘㛙㛚㛛㛜㛝㛞㛟㛠㛡㛢㛣㛤㛥㛦㛧㛨㛩㛪㛫㛬㛭㛮㛯㛰㛱㛲㛳㛴㛵㛶㛷㛸㛹㛺㛻㛼㛽㛾㛿"],
      [base |-> 14208, text |-> "㞀㞁㞂㞃㞄㞅㞆㞇㞈㞉㞊㞋㞌㞍㞎㞏㞐㞑㞒㞓㞔㞕㞖㞗㞘㞙㞚㞛㞜㞝㞞㞟㞠㞡㞢㞣㞤㞥㞦㞧㞨㞩㞪㞫㞬㞭㞮㞯㞰㞱㞲㞳㞴㞵㞶㞷㞸㞹㞺㞻㞼㞽㞾㞿㟀㟁㟂㟃㟄㟅㟆㟇㟈㟉㟊㟋㟌㟍㟎㟏㟐㟑㟒㟓㟔㟕㟖㟗㟘㟙㟚㟛㟜㟝㟞㟟㟠㟡㟢㟣㟤㟥㟦㟧㟨㟩㟪㟫㟬㟭㟮㟯㟰㟱㟲㟳㟴㟵㟶㟷㟸㟹㟺㟻㟼㟽㟾㟿"],
      [base |-> 14464, text |-> "㢀㢁㢂㢃㢄㢅㢆㢇㢈㢉㢊㢋㢌㢍㢎㢏㢐㢑㢒㢓㢔㢕㢖㢗㢘㢙㢚㢛㢜㢝㢞㢟㢠㢡㢢㢣㢤㢥㢦㢧㢨㢩㢪㢫㢬㢭㢮㢯㢰㢱㢲㢳㢴㢵㢶㢷㢸㢹㢺㢻㢼㢽㢾㢿㣀㣁㣂㣃㣄㣅㣆㣇㣈㣉㣊㣋㣌㣍㣎㣏㣐㣑㣒㣓㣔㣕㣖㣗㣘㣙㣚㣛㣜㣝㣞㣟㣠㣡㣢㣣㣤㣥㣦㣧㣨㣩㣪㣫㣬㣭㣮㣯㣰㣱㣲㣳㣴㣵㣶㣷㣸㣹㣺㣻㣼㣽㣾㣿"],
      [base |-> 14720, text |-> "㦀㦁㦂㦃㦄㦅㦆㦇㦈㦉㦊㦋㦌㦍㦎㦏㦐㦑㦒㦓㦔㦕㦖㦗㦘㦙㦚㦛㦜㦝㦞㦟㦠㦡㦢㦣㦤㦥㦦㦧㦨㦩㦪㦫㦬㦭㦮㦯㦰㦱㦲㦳㦴㦵㦶㦷㦸㦹㦺㦻㦼㦽㦾㦿㧀㧁㧂㧃㧄㧅㧆㧇㧈㧉㧊㧋㧌㧍㧎㧏㧐㧑㧒㧓㧔㧕㧖㧗㧘㧙㧚㧛㧜㧝㧞㧟㧠㧡㧢㧣㧤㧥㧦㧧㧨㧩㧪㧫㧬㧭㧮㧯㧰㧱㧲㧳㧴㧵㧶㧷㧸㧹㧺㧻㧼㧽㧾㧿"],
      [base |-> 14976, text |-> "㪀㪁㪂㪃㪄㪅㪆㪇㪈㪉㪊㪋㪌㪍㪎㪏㪐㪑㪒㪓㪔㪕㪖㪗㪘㪙㪚㪛㪜㪝㪞㪟㪠㪡㪢㪣㪤㪥㪦㪧㪨㪩㪪㪫㪬㪭㪮㪯㪰㪱㪲㪳㪴㪵㪶㪷㪸㪹㪺㪻㪼㪽㪾㪿㫀㫁㫂㫃㫄㫅㫆㫇㫈㫉㫊㫋㫌㫍㫎㫏㫐㫑㫒㫓㫔㫕㫖㫗㫘㫙㫚㫛㫜㫝㫞㫟㫠㫡㫢㫣㫤㫥㫦㫧㫨㫩㫪㫫㫬㫭㫮㫯㫰㫱㫲㫳㫴㫵㫶㫷㫸㫹㫺㫻㫼㫽㫾㫿"],
      [base |-> 15232, text |-> "㮀㮁㮂㮃㮄㮅㮆㮇㮈㮉㮊㮋㮌㮍㮎㮏㮐㮑㮒㮓㮔㮕㮖㮗㮘㮙㮚㮛㮜㮝㮞㮟㮠㮡㮢㮣㮤㮥㮦㮧㮨㮩㮪㮫㮬㮭㮮㮯㮰㮱㮲㮳㮴㮵㮶㮷㮸㮹㮺㮻㮼㮽㮾㮿㯀㯁㯂㯃㯄㯅㯆㯇㯈㯉㯊㯋㯌㯍㯎㯏㯐㯑㯒㯓㯔㯕㯖㯗㯘㯙㯚㯛㯜㯝㯞㯟㯠㯡㯢㯣㯤㯥㯦㯧㯨㯩㯪㯫㯬㯭㯮㯯㯰㯱㯲㯳㯴㯵㯶㯷㯸㯹㯺㯻㯼㯽㯾㯿"],
      [base |-> 15488, text |-> "㲀㲁㲂㲃㲄㲅㲆㲇㲈㲉㲊㲋㲌㲍㲎㲏㲐㲑㲒㲓㲔㲕㲖㲗㲘㲙㲚㲛㲜㲝㲞㲟㲠㲡㲢㲣㲤㲥㲦㲧㲨㲩㲪㲫㲬㲭㲮㲯㲰㲱㲲㲳㲴㲵㲶㲷㲸㲹㲺㲻㲼㲽㲾㲿㳀㳁㳂㳃㳄㳅㳆㳇㳈㳉㳊㳋㳌㳍㳎㳏㳐㳑㳒㳓㳔㳕㳖㳗㳘㳙㳚㳛㳜㳝㳞㳟㳠㳡㳢㳣㳤㳥㳦㳧㳨㳩㳪㳫㳬㳭㳮㳯㳰㳱㳲㳳㳴㳵㳶㳷㳸㳹㳺㳻㳼㳽㳾㳿"],
      [base |-> 15744, text |-> "㶀㶁㶂㶃㶄㶅㶆㶇㶈㶉㶊㶋㶌㶍㶎㶏㶐㶑㶒㶓㶔㶕㶖㶗㶘㶙㶚㶛㶜㶝㶞㶟㶠㶡㶢㶣㶤㶥㶦㶧㶨㶩㶪㶫㶬㶭㶮㶯㶰㶱㶲㶳㶴㶵㶶㶷㶸㶹㶺㶻㶼㶽㶾㶿㷀㷁㷂㷃㷄㷅㷆㷇㷈㷉㷊㷋㷌㷍㷎㷏㷐㷑㷒㷓㷔㷕㷖㷗㷘㷙㷚㷛㷜㷝㷞㷟㷠㷡㷢㷣㷤㷥㷦㷧㷨㷩㷪㷫㷬㷭㷮㷯㷰㷱㷲㷳㷴㷵㷶㷷㷸㷹㷺㷻㷼㷽㷾㷿"],
      [base |-> 16000, text |-> "㺀㺁㺂㺃㺄㺅㺆㺇㺈㺉㺊㺋㺌㺍㺎㺏㺐㺑㺒㺓㺔㺕㺖㺗㺘㺙㺚㺛㺜㺝㺞㺟㺠㺡㺢㺣㺤㺥㺦㺧㺨㺩㺪㺫㺬㺭㺮㺯㺰㺱㺲㺳㺴㺵㺶㺷㺸㺹㺺㺻㺼㺽㺾㺿㻀㻁㻂㻃㻄㻅㻆㻇㻈㻉㻊㻋㻌㻍㻎㻏㻐㻑㻒㻓㻔㻕㻖㻗㻘㻙㻚㻛㻜㻝㻞㻟㻠㻡㻢㻣㻤㻥㻦㻧㻨㻩㻪㻫㻬㻭㻮㻯㻰㻱㻲㻳㻴㻵㻶㻷㻸㻹㻺㻻㻼㻽㻾㻿"],
      [base |-> 16256, text |-> "㾀㾁㾂㾃㾄㾅㾆㾇㾈㾉㾊㾋㾌㾍㾎㾏㾐㾑㾒㾓㾔㾕㾖㾗㾘㾙㾚㾛㾜㾝㾞㾟㾠㾡㾢㾣㾤㾥㾦㾧㾨㾩㾪㾫㾬㾭㾮㾯㾰㾱㾲㾳㾴㾵㾶㾷㾸㾹㾺㾻㾼㾽㾾㾿㿀㿁㿂㿃㿄㿅㿆㿇㿈㿉㿊㿋㿌㿍㿎㿏㿐㿑㿒㿓㿔㿕㿖㿗㿘㿙㿚㿛㿜㿝㿞㿟㿠㿡㿢㿣㿤㿥㿦㿧㿨㿩㿪㿫㿬㿭㿮㿯㿰㿱㿲㿳㿴㿵㿶㿷㿸㿹㿺㿻㿼㿽㿾㿿"],
      [base |-> 16512, text |-> "䂀䂁䂂䂃䂄䂅䂆䂇䂈䂉䂊䂋䂌䂍䂎䂏䂐䂑䂒䂓䂔䂕䂖䂗䂘䂙䂚䂛䂜䂝䂞䂟䂠䂡䂢䂣䂤䂥䂦䂧䂨䂩䂪䂫䂬䂭䂮䂯䂰䂱䂲䂳䂴䂵䂶䂷䂸䂹䂺䂻䂼䂽䂾䂿䃀䃁䃂䃃䃄䃅䃆䃇䃈䃉䃊䃋䃌䃍䃎䃏䃐䃑䃒䃓䃔䃕䃖䃗䃘䃙䃚䃛䃜䃝䃞䃟䃠䃡䃢䃣䃤䃥䃦䃧䃨䃩䃪䃫䃬䃭䃮䃯䃰䃱䃲䃳䃴䃵䃶䃷䃸䃹䃺䃻䃼䃽䃾䃿"],
      [base |-> 16768, text |-> "䆀䆁䆂䆃䆄䆅䆆䆇䆈䆉䆊䆋䆌䆍䆎䆏䆐䆑䆒䆓䆔䆕䆖䆗䆘䆙䆚䆛䆜䆝䆞䆟䆠䆡䆢䆣䆤䆥䆦䆧䆨䆩䆪䆫䆬䆭䆮䆯䆰䆱䆲䆳䆴䆵䆶䆷䆸䆹䆺䆻䆼䆽䆾䆿䇀䇁䇂䇃䇄䇅䇆䇇䇈䇉䇊䇋䇌䇍䇎䇏䇐䇑䇒䇓䇔䇕䇖䇗䇘䇙䇚䇛䇜䇝䇞䇟䇠䇡䇢䇣䇤䇥䇦䇧䇨䇩䇪䇫䇬䇭䇮䇯䇰䇱䇲䇳䇴䇵䇶䇷䇸䇹䇺䇻䇼䇽䇾䇿"],
      [base |-> 17024, text |-> "䊀䊁䊂䊃䊄䊅䊆䊇䊈䊉䊊䊋䊌䊍䊎䊏䊐䊑䊒䊓䊔䊕䊖䊗䊘䊙䊚䊛䊜䊝䊞䊟䊠䊡䊢䊣䊤䊥䊦䊧䊨䊩䊪䊫䊬䊭䊮䊯䊰䊱䊲䊳䊴䊵䊶䊷䊸䊹䊺䊻䊼䊽䊾䊿䋀䋁䋂䋃䋄䋅䋆䋇䋈䋉䋊䋋䋌䋍䋎䋏䋐䋑䋒䋓䋔䋕䋖䋗䋘䋙䋚䋛䋜䋝䋞䋟䋠䋡䋢䋣䋤䋥䋦䋧䋨䋩䋪䋫䋬䋭䋮䋯䋰䋱䋲䋳䋴䋵䋶䋷䋸䋹䋺䋻䋼䋽䋾䋿"],
      [base |-> 17280, text |-> "䎀䎁䎂䎃䎄䎅䎆䎇䎈䎉䎊䎋䎌䎍䎎䎏䎐䎑䎒䎓䎔䎕䎖䎗䎘䎙䎚䎛䎜䎝䎞䎟䎠䎡䎢䎣䎤䎥䎦䎧䎨䎩䎪䎫䎬䎭䎮䎯䎰䎱䎲䎳䎴䎵䎶䎷䎸䎹䎺䎻䎼䎽䎾䎿䏀䏁䏂䏃䏄䏅䏆䏇䏈䏉䏊䏋䏌䏍䏎䏏䏐䏑䏒䏓䏔䏕䏖䏗䏘䏙䏚䏛䏜䏝䏞䏟䏠䏡䏢䏣䏤䏥䏦䏧䏨䏩䏪䏫䏬䏭䏮䏯䏰䏱䏲䏳䏴䏵䏶䏷䏸䏹䏺䏻䏼䏽䏾䏿"],
      [base |-> 17536, text |-> "䒀䒁䒂䒃䒄䒅䒆䒇䒈䒉䒊䒋䒌䒍䒎䒏䒐䒑䒒䒓䒔䒕䒖䒗䒘䒙䒚䒛䒜䒝䒞䒟䒠䒡䒢䒣䒤䒥䒦䒧䒨䒩䒪䒫䒬䒭䒮䒯䒰䒱䒲䒳䒴䒵䒶䒷䒸䒹䒺䒻䒼䒽䒾䒿䓀䓁䓂䓃䓄䓅䓆䓇䓈䓉䓊䓋䓌䓍䓎䓏䓐䓑䓒䓓䓔䓕䓖䓗䓘䓙䓚䓛䓜䓝䓞䓟䓠䓡䓢䓣䓤䓥䓦䓧䓨䓩䓪䓫䓬䓭䓮䓯䓰䓱䓲䓳䓴䓵䓶䓷䓸䓹䓺䓻䓼䓽䓾䓿"],
      [base |-> 17792, text |-> "䖀䖁䖂䖃䖄䖅䖆䖇䖈䖉䖊䖋䖌䖍䖎䖏䖐䖑䖒䖓䖔䖕䖖䖗䖘䖙䖚䖛䖜䖝䖞䖟䖠䖡䖢䖣䖤䖥䖦䖧䖨䖩䖪䖫䖬䖭䖮䖯䖰䖱䖲䖳䖴䖵䖶䖷䖸䖹䖺䖻䖼䖽䖾䖿䗀䗁䗂䗃䗄䗅䗆䗇䗈䗉䗊䗋䗌䗍䗎䗏䗐䗑䗒䗓䗔䗕䗖䗗䗘䗙䗚䗛䗜䗝䗞䗟䗠䗡䗢䗣䗤䗥䗦䗧䗨䗩䗪䗫䗬䗭䗮䗯䗰䗱䗲䗳䗴䗵䗶䗷䗸䗹䗺䗻䗼䗽䗾䗿"],
      [base |-> 18048, text |-> "䚀䚁䚂䚃䚄䚅䚆䚇䚈䚉䚊䚋䚌䚍䚎䚏䚐䚑䚒䚓䚔䚕䚖䚗䚘䚙䚚䚛䚜䚝䚞䚟䚠䚡䚢䚣䚤䚥䚦䚧䚨䚩䚪䚫䚬䚭䚮䚯䚰䚱䚲䚳䚴䚵䚶䚷䚸䚹䚺䚻䚼䚽䚾䚿䛀䛁䛂䛃䛄䛅䛆䛇䛈䛉䛊䛋䛌䛍䛎䛏䛐䛑䛒䛓䛔䛕䛖䛗䛘䛙䛚䛛䛜䛝䛞䛟䛠䛡䛢䛣䛤䛥䛦䛧䛨䛩䛪䛫䛬䛭䛮䛯䛰䛱䛲䛳䛴䛵䛶䛷䛸䛹䛺䛻䛼䛽䛾䛿"],
      [base |-> 18304, text |-> "䞀䞁䞂䞃䞄䞅䞆䞇䞈䞉䞊䞋䞌䞍䞎䞏䞐䞑䞒䞓䞔䞕䞖䞗䞘䞙䞚䞛䞜䞝䞞䞟䞠䞡䞢䞣䞤䞥䞦䞧䞨䞩䞪䞫䞬䞭䞮䞯䞰䞱䞲䞳䞴䞵䞶䞷䞸䞹䞺䞻䞼䞽䞾䞿䟀䟁䟂䟃䟄䟅䟆䟇䟈䟉䟊䟋䟌䟍䟎䟏䟐䟑䟒䟓䟔䟕䟖䟗䟘䟙䟚䟛䟜䟝䟞䟟䟠䟡䟢䟣䟤䟥䟦䟧䟨䟩䟪䟫䟬䟭䟮䟯䟰䟱䟲䟳䟴䟵䟶䟷䟸䟹䟺䟻䟼䟽䟾䟿"],
      [base |-> 18560, text |-> "䢀䢁䢂䢃䢄䢅䢆䢇䢈䢉䢊䢋䢌䢍䢎䢏䢐䢑䢒䢓䢔䢕䢖䢗䢘䢙䢚䢛䢜䢝䢞䢟䢠䢡䢢䢣䢤䢥䢦䢧䢨䢩䢪䢫䢬䢭䢮䢯䢰䢱䢲䢳䢴䢵䢶䢷䢸䢹䢺䢻䢼䢽䢾䢿䣀䣁䣂䣃䣄䣅䣆䣇䣈䣉䣊䣋䣌䣍䣎䣏䣐䣑䣒䣓䣔䣕䣖䣗䣘䣙䣚䣛䣜䣝䣞䣟䣠䣡䣢䣣䣤䣥䣦䣧䣨䣩䣪䣫䣬䣭䣮䣯䣰䣱䣲䣳䣴䣵䣶䣷䣸䣹䣺䣻䣼䣽䣾䣿"],
      [base |-> 18816, text |-> "䦀䦁䦂䦃䦄䦅䦆䦇䦈䦉䦊䦋䦌䦍䦎䦏䦐䦑䦒䦓䦔䦕䦖䦗䦘䦙䦚䦛䦜䦝䦞䦟䦠䦡䦢䦣䦤䦥䦦䦧䦨䦩䦪䦫䦬䦭䦮䦯䦰䦱䦲䦳䦴䦵䦶䦷䦸䦹䦺䦻䦼䦽䦾䦿䧀䧁䧂䧃䧄䧅䧆䧇䧈䧉䧊䧋䧌䧍䧎䧏䧐䧑䧒䧓䧔䧕䧖䧗䧘䧙䧚䧛䧜䧝䧞䧟䧠䧡䧢䧣䧤䧥䧦䧧䧨䧩䧪䧫䧬䧭䧮䧯䧰䧱䧲䧳䧴䧵䧶䧷䧸䧹䧺䧻䧼䧽䧾䧿"],
      [base |-> 19072, text |-> "䪀䪁䪂䪃䪄䪅䪆䪇䪈䪉䪊䪋䪌䪍䪎䪏䪐䪑䪒䪓䪔䪕䪖䪗䪘䪙䪚䪛䪜䪝䪞䪟䪠䪡䪢䪣䪤䪥䪦䪧䪨䪩䪪䪫䪬䪭䪮䪯䪰䪱䪲䪳䪴䪵䪶䪷䪸䪹䪺䪻䪼䪽䪾䪿䫀䫁䫂䫃䫄䫅䫆䫇䫈䫉䫊䫋䫌䫍䫎䫏䫐䫑䫒䫓䫔䫕䫖䫗䫘䫙䫚䫛䫜䫝䫞䫟䫠䫡䫢䫣䫤䫥䫦䫧䫨䫩䫪䫫䫬䫭䫮䫯䫰䫱䫲䫳䫴䫵䫶䫷䫸䫹䫺䫻䫼䫽䫾䫿"],
      [base |-> 19328, text |-> "䮀䮁䮂䮃䮄䮅䮆䮇䮈䮉䮊䮋䮌䮍䮎䮏䮐䮑䮒䮓䮔䮕䮖䮗䮘䮙䮚䮛䮜䮝䮞䮟䮠䮡䮢䮣䮤䮥䮦䮧䮨䮩䮪䮫䮬䮭䮮䮯䮰䮱䮲䮳䮴䮵䮶䮷䮸䮹䮺䮻䮼䮽䮾䮿䯀䯁䯂䯃䯄䯅䯆䯇䯈䯉䯊䯋䯌䯍䯎䯏䯐䯑䯒䯓䯔䯕䯖䯗䯘䯙䯚䯛䯜䯝䯞䯟䯠䯡䯢䯣䯤䯥䯦䯧䯨䯩䯪䯫䯬䯭䯮䯯䯰䯱䯲䯳䯴䯵䯶䯷䯸䯹䯺䯻䯼䯽䯾䯿"],
      [base |-> 19584, text |-> "䲀䲁䲂䲃䲄䲅䲆䲇䲈䲉䲊䲋䲌䲍䲎䲏䲐䲑䲒䲓䲔䲕䲖䲗䲘䲙䲚䲛䲜䲝䲞䲟䲠䲡䲢䲣䲤䲥䲦䲧䲨䲩䲪䲫䲬䲭䲮䲯䲰䲱䲲䲳䲴䲵䲶䲷䲸䲹䲺䲻䲼䲽䲾䲿䳀䳁䳂䳃䳄䳅䳆䳇䳈䳉䳊䳋䳌䳍䳎䳏䳐䳑䳒䳓䳔䳕䳖䳗䳘䳙䳚䳛䳜䳝䳞䳟䳠䳡䳢䳣䳤䳥䳦䳧䳨䳩䳪䳫䳬䳭䳮䳯䳰䳱䳲䳳䳴䳵䳶䳷䳸䳹䳺䳻䳼䳽䳾䳿"],
      [base |-> 19840, text |-> "䶀䶁䶂䶃䶄䶅䶆䶇䶈䶉䶊䶋䶌䶍䶎䶏䶐䶑䶒䶓䶔䶕䶖䶗䶘䶙䶚䶛䶜䶝䶞䶟䶠䶡䶢䶣䶤䶥䶦䶧䶨䶩䶪䶫䶬䶭䶮䶯䶰䶱䶲䶳䶴䶵䶶䶷䶸䶹䶺䶻䶼䶽䶾䶿䷀䷁䷂䷃䷄䷅䷆䷇䷈䷉䷊䷋䷌䷍䷎䷏䷐䷑䷒䷓䷔䷕䷖䷗䷘䷙䷚䷛䷜䷝䷞䷟䷠䷡䷢䷣䷤䷥䷦䷧䷨䷩䷪䷫䷬䷭䷮䷯䷰䷱䷲䷳䷴䷵䷶䷷䷸䷹䷺䷻䷼䷽䷾䷿"],
      [base |-> 20096, text |-> "亀亁亂亃亄亅了亇予争亊事二亍于亏亐云互亓五井亖亗亘亙亚些亜亝亞亟亠亡亢亣交亥亦产亨亩亪享京亭亮亯亰亱亲亳亴亵亶亷亸亹人亻亼亽亾亿什仁仂仃仄仅仆仇仈仉今介仌仍从仏仐仑仒仓仔仕他仗付仙仚仛仜仝仞仟仠仡仢代令以仦仧仨仩仪仫们仭仮仯仰仱仲仳仴仵件价仸仹仺任仼份仾仿"],
      [base |-> 20352, text |-> "侀侁侂侃侄侅來侇侈侉侊例侌侍侎侏侐侑侒侓侔侕侖侗侘侙侚供侜依侞侟侠価侢侣侤侥侦侧侨侩侪侫侬侭侮侯侰侱侲侳侴侵侶侷侸侹侺侻侼侽侾便俀俁係促俄俅俆俇俈俉俊俋俌俍俎俏俐俑俒俓俔俕俖俗俘俙俚俛俜保俞俟俠信俢俣俤俥俦俧俨俩俪俫俬俭修俯俰俱俲俳俴俵俶俷俸俹俺俻俼俽俾俿"],
      [base |-> 20608, text |-> "傀傁傂傃傄傅傆傇傈傉傊傋傌傍傎傏傐傑傒傓傔傕傖傗傘備傚傛傜傝傞傟傠傡傢傣傤傥傦傧储傩傪傫催傭傮傯傰傱傲傳傴債傶傷傸傹傺傻傼傽傾傿僀僁僂僃僄僅僆僇僈僉僊僋僌働僎像僐僑僒僓僔僕僖僗僘僙僚僛僜僝僞僟僠僡僢僣僤僥僦僧僨僩僪僫僬僭僮僯僰僱僲僳僴僵僶僷僸價僺僻僼僽僾僿"],
      [base |-> 20864, text |-> "冀冁冂冃冄内円冇冈冉冊冋册再冎冏冐冑冒冓冔冕冖冗冘写冚军农冝冞冟冠冡冢冣冤冥冦冧冨冩冪冫冬冭冮冯冰冱冲决冴况冶冷冸冹冺冻冼冽冾冿净凁凂凃凄凅准凇凈凉凊凋凌凍凎减凐凑凒凓凔凕凖凗凘凙凚凛凜凝凞凟几凡凢凣凤凥処凧凨凩凪凫凬凭凮凯凰凱凲凳凴凵凶凷凸凹出击凼函凾凿"],
      [base |-> 21120, text |-> "劀劁劂劃劄劅劆劇劈劉劊劋劌劍劎劏劐劑劒劓劔劕劖劗劘劙劚力劜劝办功加务劢劣劤劥劦劧动助努劫劬劭劮劯劰励劲劳労劵劶劷劸効劺劻劼劽劾势勀勁勂勃勄勅勆勇勈勉勊勋勌勍勎勏勐勑勒勓勔動勖勗勘務勚勛勜勝勞募勠勡勢勣勤勥勦勧勨勩勪勫勬勭勮勯勰勱勲勳勴勵勶勷勸勹勺勻勼勽勾勿"],
      [base |-> 21376, text |-> "厀厁厂厃厄厅历厇厈厉厊压厌厍厎厏厐厑厒厓厔厕厖厗厘厙厚厛厜厝厞原厠厡厢厣厤厥厦厧厨厩厪厫厬厭厮厯厰厱厲厳厴厵厶厷厸厹厺去厼厽厾县叀叁参參叄叅叆叇又叉及友双反収叏叐发叒叓叔叕取受变叙叚叛叜叝叞叟叠叡叢口古句另叧叨叩只叫召叭叮可台叱史右叴叵叶号司叹叺叻叼叽叾叿"],
      [base |-> 21632, text |-> "咀咁咂咃咄咅咆咇咈咉咊咋和咍咎咏咐咑咒咓咔咕咖咗咘咙咚咛咜咝咞咟咠咡咢咣咤咥咦咧咨咩咪咫咬咭咮咯咰咱咲咳咴咵咶咷咸咹咺咻咼咽咾咿哀品哂哃哄哅哆哇哈哉哊哋哌响哎哏哐哑哒哓哔哕哖哗哘哙哚哛哜哝哞哟哠員哢哣哤哥哦哧哨哩哪哫哬哭哮哯哰哱哲哳哴哵哶哷哸哹哺哻哼哽哾哿"],
      [base |-> 21888, text |-> "喀喁喂喃善喅喆喇喈喉喊喋喌喍喎喏喐喑喒喓喔喕喖喗喘喙喚喛喜喝喞喟喠喡喢喣喤喥喦喧喨喩喪喫喬喭單喯喰喱喲喳喴喵営喷喸喹喺喻喼喽喾喿嗀嗁嗂嗃嗄嗅嗆嗇嗈嗉嗊嗋嗌嗍嗎嗏嗐嗑嗒嗓嗔嗕嗖嗗嗘嗙嗚嗛嗜嗝嗞嗟嗠嗡嗢嗣嗤嗥嗦嗧嗨嗩嗪嗫嗬嗭嗮嗯嗰嗱嗲嗳嗴嗵嗶嗷嗸嗹嗺嗻嗼嗽嗾嗿"],
      [base |-> 22144, text |-> "嚀嚁嚂嚃嚄嚅嚆嚇嚈嚉嚊嚋嚌嚍嚎嚏嚐嚑嚒嚓嚔嚕嚖嚗嚘嚙嚚嚛嚜嚝嚞嚟嚠嚡嚢嚣嚤嚥嚦嚧嚨嚩嚪嚫嚬嚭嚮嚯嚰嚱嚲嚳嚴嚵嚶嚷嚸嚹嚺嚻嚼嚽嚾嚿囀囁囂囃囄囅囆囇囈囉囊囋囌囍囎囏囐囑囒囓囔囕囖囗囘囙囚四囜囝回囟因囡团団囤囥囦囧囨囩囪囫囬园囮囯困囱囲図围囵囶囷囸囹固囻囼国图囿"],
      [base |-> 22400, text |-> "垀垁垂垃垄垅垆垇垈垉垊型垌垍垎垏垐垑垒垓垔垕垖垗垘垙垚垛垜垝垞垟垠垡垢垣垤垥垦垧垨垩垪垫垬垭垮垯垰垱垲垳垴垵垶垷垸垹垺垻垼垽垾垿埀埁埂埃埄埅埆埇埈埉埊埋埌埍城埏埐埑埒埓埔埕埖埗埘埙埚埛埜埝埞域埠埡埢埣埤埥埦埧埨埩埪埫埬埭埮埯埰埱埲埳埴埵埶執埸培基埻埼埽埾埿"],
      [base |-> 22656, text |-> "墀墁墂境墄墅墆墇墈墉墊墋墌墍墎墏墐墑墒墓墔墕墖増墘墙墚墛墜墝增墟墠墡墢墣墤墥墦墧墨墩墪墫墬墭墮墯墰墱墲墳墴墵墶墷墸墹墺墻墼墽墾墿壀壁壂壃壄壅壆壇壈壉壊壋壌壍壎壏壐壑壒壓壔壕壖壗壘壙壚壛壜壝壞壟壠壡壢壣壤壥壦壧壨壩壪士壬壭壮壯声壱売壳壴壵壶壷壸壹壺壻壼壽壾壿"],
      [base |-> 22912, text |-> "妀妁如妃妄妅妆妇妈妉妊妋妌妍妎妏妐妑妒妓妔妕妖妗妘妙妚妛妜妝妞妟妠妡妢妣妤妥妦妧妨妩妪妫妬妭妮妯妰妱妲妳妴妵妶妷妸妹妺妻妼妽妾妿姀姁姂姃姄姅姆姇姈姉姊始姌姍姎姏姐姑姒姓委姕姖姗姘姙姚姛姜姝姞姟姠姡姢姣姤姥姦姧姨姩姪姫姬姭姮姯姰姱姲姳姴姵姶姷姸姹姺姻姼姽姾姿"],
      [base |-> 23168, text |-> "媀媁媂媃媄媅媆媇媈媉媊媋媌媍媎媏媐媑媒媓媔媕媖媗媘媙媚媛媜媝媞媟媠媡媢媣媤媥媦媧媨媩媪媫媬媭媮媯媰媱媲媳媴媵媶媷媸媹媺媻媼媽媾媿嫀嫁嫂嫃嫄嫅嫆嫇嫈嫉嫊嫋嫌嫍嫎嫏嫐嫑嫒嫓嫔嫕嫖嫗嫘嫙嫚嫛嫜嫝嫞嫟嫠嫡嫢嫣嫤嫥嫦嫧嫨嫩嫪嫫嫬嫭嫮嫯嫰嫱嫲嫳嫴嫵嫶嫷嫸嫹嫺嫻嫼嫽嫾嫿"],
      [base |-> 23424, text |-> "宀宁宂它宄宅宆宇守安宊宋完宍宎宏宐宑宒宓宔宕宖宗官宙定宛宜宝实実宠审客宣室宥宦宧宨宩宪宫宬宭宮宯宰宱宲害宴宵家宷宸容宺宻宼宽宾宿寀寁寂寃寄寅密寇寈寉寊寋富寍寎寏寐寑寒寓寔寕寖寗寘寙寚寛寜寝寞察寠寡寢寣寤寥實寧寨審寪寫寬寭寮寯寰寱寲寳寴寵寶寷寸对寺寻导寽対寿"],
      [base |-> 23680, text |-> "岀岁岂岃岄岅岆岇岈岉岊岋岌岍岎岏岐岑岒岓岔岕岖岗岘岙岚岛岜岝岞岟岠岡岢岣岤岥岦岧岨岩岪岫岬岭岮岯岰岱岲岳岴岵岶岷岸岹岺岻岼岽岾岿峀峁峂峃峄峅峆峇峈峉峊峋峌峍峎峏峐峑峒峓峔峕峖峗峘峙峚峛峜峝峞峟峠峡峢峣峤峥峦峧峨峩峪峫峬峭峮峯峰峱峲峳峴峵島峷峸峹峺峻峼峽峾峿"],
      [base |-> 23936, text |-> "嶀嶁嶂嶃嶄嶅嶆嶇嶈嶉嶊嶋嶌嶍嶎嶏嶐嶑嶒嶓嶔嶕嶖嶗嶘嶙嶚嶛嶜嶝嶞嶟嶠嶡嶢嶣嶤嶥嶦嶧嶨嶩嶪嶫嶬嶭嶮嶯嶰嶱嶲嶳嶴嶵嶶嶷嶸嶹嶺嶻嶼嶽嶾嶿巀巁巂巃巄巅巆巇巈巉巊巋巌巍巎巏巐巑巒巓巔巕巖巗巘巙巚巛巜川州巟巠巡巢巣巤工左巧巨巩巪巫巬巭差巯巰己已巳巴巵巶巷巸巹巺巻巼巽巾巿"],
      [base |-> 24192, text |-> "庀庁庂広庄庅庆庇庈庉床庋庌庍庎序庐庑庒库应底庖店庘庙庚庛府庝庞废庠庡庢庣庤庥度座庨庩庪庫庬庭庮庯庰庱庲庳庴庵庶康庸庹庺庻庼庽庾庿廀廁廂廃廄廅廆廇廈廉廊廋廌廍廎廏廐廑廒廓廔廕廖廗廘廙廚廛廜廝廞廟廠廡廢廣廤廥廦廧廨廩廪廫廬廭廮廯廰廱廲廳廴廵延廷廸廹建廻廼廽廾廿"],
      [base |-> 24448, text |-> "往征徂徃径待徆徇很徉徊律後徍徎徏徐徑徒従徔徕徖得徘徙徚徛徜徝從徟徠御徢徣徤徥徦徧徨復循徫徬徭微徯徰徱徲徳徴徵徶德徸徹徺徻徼徽徾徿忀忁忂心忄必忆忇忈忉忊忋忌忍忎忏忐忑忒忓忔忕忖志忘忙忚忛応忝忞忟忠忡忢忣忤忥忦忧忨忩忪快忬忭忮忯忰忱忲忳忴念忶忷忸忹忺忻忼忽忾忿"],
      [base |-> 24704, text |-> "悀悁悂悃悄悅悆悇悈悉悊悋悌悍悎悏悐悑悒悓悔悕悖悗悘悙悚悛悜悝悞悟悠悡悢患悤悥悦悧您悩悪悫悬悭悮悯悰悱悲悳悴悵悶悷悸悹悺悻悼悽悾悿惀惁惂惃惄情惆惇惈惉惊惋惌惍惎惏惐惑惒惓惔惕惖惗惘惙惚惛惜惝惞惟惠惡惢惣惤惥惦惧惨惩惪惫惬惭惮惯惰惱惲想惴惵惶惷惸惹惺惻惼惽惾惿"],
      [base |-> 24960, text |-> "憀憁憂憃憄憅憆憇憈憉憊憋憌憍憎憏憐憑憒憓憔憕憖憗憘憙憚憛憜憝憞憟憠憡憢憣憤憥憦憧憨憩憪憫憬憭憮憯憰憱憲憳憴憵憶憷憸憹憺憻憼憽憾憿懀懁懂懃懄懅懆懇懈應懊懋懌懍懎懏懐懑懒懓懔懕懖懗懘懙懚懛懜懝懞懟懠懡懢懣懤懥懦懧懨懩懪懫懬懭懮懯懰懱懲懳懴懵懶懷懸懹懺懻懼懽懾懿"],
      [base |-> 25216, text |-> "技抁抂抃抄抅抆抇抈抉把抋抌抍抎抏抐抑抒抓抔投抖抗折抙抚抛抜抝択抟抠抡抢抣护报抦抧抨抩抪披抬抭抮抯抰抱抲抳抴抵抶抷抸抹抺抻押抽抾抿拀拁拂拃拄担拆拇拈拉拊拋拌拍拎拏拐拑拒拓拔拕拖拗拘拙拚招拜拝拞拟拠拡拢拣拤拥拦拧拨择拪拫括拭拮拯拰拱拲拳拴拵拶拷拸拹拺拻拼拽拾拿"],
      [base |-> 25472, text |-> "掀掁掂掃掄掅掆掇授掉掊掋掌掍掎掏掐掑排掓掔掕掖掗掘掙掚掛掜掝掞掟掠採探掣掤接掦控推掩措掫掬掭掮掯掰掱掲掳掴掵掶掷掸掹掺掻掼掽掾掿揀揁揂揃揄揅揆揇揈揉揊揋揌揍揎描提揑插揓揔揕揖揗揘揙揚換揜揝揞揟揠握揢揣揤揥揦揧揨揩揪揫揬揭揮揯揰揱揲揳援揵揶揷揸揹揺揻揼揽揾揿"],
      [base |-> 25728, text |-> "撀撁撂撃撄撅撆撇撈撉撊撋撌撍撎撏撐撑撒撓撔撕撖撗撘撙撚撛撜撝撞撟撠撡撢撣撤撥撦撧撨撩撪撫撬播撮撯撰撱撲撳撴撵撶撷撸撹撺撻撼撽撾撿擀擁擂擃擄擅擆擇擈擉擊擋擌操擎擏擐擑擒擓擔擕擖擗擘擙據擛擜擝擞擟擠擡擢擣擤擥擦擧擨擩擪擫擬擭擮擯擰擱擲擳擴擵擶擷擸擹擺擻擼擽擾擿"],
      [base |-> 25984, text |-> "斀斁斂斃斄斅斆文斈斉斊斋斌斍斎斏斐斑斒斓斔斕斖斗斘料斚斛斜斝斞斟斠斡斢斣斤斥斦斧斨斩斪斫斬断斮斯新斱斲斳斴斵斶斷斸方斺斻於施斾斿旀旁旂旃旄旅旆旇旈旉旊旋旌旍旎族旐旑旒旓旔旕旖旗旘旙旚旛旜旝旞旟无旡既旣旤日旦旧旨早旪旫旬旭旮旯旰旱旲旳旴旵时旷旸旹旺旻旼旽旾旿"],
      [base |-> 26240, text |-> "暀暁暂暃暄暅暆暇暈暉暊暋暌暍暎暏暐暑暒暓暔暕暖暗暘暙暚暛暜暝暞暟暠暡暢暣暤暥暦暧暨暩暪暫暬暭暮暯暰暱暲暳暴暵暶暷暸暹暺暻暼暽暾暿曀曁曂曃曄曅曆曇曈曉曊曋曌曍曎曏曐曑曒曓曔曕曖曗曘曙曚曛曜曝曞曟曠曡曢曣曤曥曦曧曨曩曪曫曬曭曮曯曰曱曲曳更曵曶曷書曹曺曻曼曽曾替"],
      [base |-> 26496, text |-> "枀极枂枃构枅枆枇枈枉枊枋枌枍枎枏析枑枒枓枔枕枖林枘枙枚枛果枝枞枟枠枡枢枣枤枥枦枧枨枩枪枫枬枭枮枯枰枱枲枳枴枵架枷枸枹枺枻枼枽枾枿柀柁柂柃柄柅柆柇柈柉柊柋柌柍柎柏某柑柒染柔柕柖柗柘柙柚柛柜柝柞柟柠柡柢柣柤查柦柧柨柩柪柫柬柭柮柯柰柱柲柳柴柵柶柷柸柹柺査柼柽柾柿"],
      [base |-> 26752, text |-> "梀梁梂梃梄梅梆梇梈梉梊梋梌梍梎梏梐梑梒梓梔梕梖梗梘梙梚梛梜條梞梟梠梡梢梣梤梥梦梧梨梩梪梫梬梭梮梯械梱梲梳梴梵梶梷梸梹梺梻梼梽梾梿检棁棂棃棄棅棆棇棈棉棊棋棌棍棎棏棐棑棒棓棔棕棖棗棘棙棚棛棜棝棞棟棠棡棢棣棤棥棦棧棨棩棪棫棬棭森棯棰棱棲棳棴棵棶棷棸棹棺棻棼棽棾棿"],
      [base |-> 27008, text |-> "榀榁概榃榄榅榆榇榈榉榊榋榌榍榎榏榐榑榒榓榔榕榖榗榘榙榚榛榜榝榞榟榠榡榢榣榤榥榦榧榨榩榪榫榬榭榮榯榰榱榲榳榴榵榶榷榸榹榺榻榼榽榾榿槀槁槂槃槄槅槆槇槈槉槊構槌槍槎槏槐槑槒槓槔槕槖槗様槙槚槛槜槝槞槟槠槡槢槣槤槥槦槧槨槩槪槫槬槭槮槯槰槱槲槳槴槵槶槷槸槹槺槻槼槽槾槿"],
      [base |-> 27264, text |-> "檀檁檂檃檄檅檆檇檈檉檊檋檌檍檎檏檐檑檒檓檔檕檖檗檘檙檚檛檜檝檞檟檠檡檢檣檤檥檦檧檨檩檪檫檬檭檮檯檰檱檲檳檴檵檶檷檸檹檺檻檼檽檾檿櫀櫁櫂櫃櫄櫅櫆櫇櫈櫉櫊櫋櫌櫍櫎櫏櫐櫑櫒櫓櫔櫕櫖櫗櫘櫙櫚櫛櫜櫝櫞櫟櫠櫡櫢櫣櫤櫥櫦櫧櫨櫩櫪櫫櫬櫭櫮櫯櫰櫱櫲櫳櫴櫵櫶櫷櫸櫹櫺櫻櫼櫽櫾櫿"],
      [base |-> 27520, text |-> "殀殁殂殃殄殅殆殇殈殉殊残殌殍殎殏殐殑殒殓殔殕殖殗殘殙殚殛殜殝殞殟殠殡殢殣殤殥殦殧殨殩殪殫殬殭殮殯殰殱殲殳殴段殶殷殸殹殺殻殼殽殾殿毀毁毂毃毄毅毆毇毈毉毊毋毌母毎每毐毑毒毓比毕毖毗毘毙毚毛毜毝毞毟毠毡毢毣毤毥毦毧毨毩毪毫毬毭毮毯毰毱毲毳毴毵毶毷毸毹毺毻毼毽毾毿"],
      [base |-> 27776, text |-> "沀沁沂沃沄沅沆沇沈沉沊沋沌沍沎沏沐沑沒沓沔沕沖沗沘沙沚沛沜沝沞沟沠没沢沣沤沥沦沧沨沩沪沫沬沭沮沯沰沱沲河沴沵沶沷沸油沺治沼沽沾沿泀況泂泃泄泅泆泇泈泉泊泋泌泍泎泏泐泑泒泓泔法泖泗泘泙泚泛泜泝泞泟泠泡波泣泤泥泦泧注泩泪泫泬泭泮泯泰泱泲泳泴泵泶泷泸泹泺泻泼泽泾泿"],
      [base |-> 28032, text |-> "涀涁涂涃涄涅涆涇消涉涊涋涌涍涎涏涐涑涒涓涔涕涖涗涘涙涚涛涜涝涞涟涠涡涢涣涤涥润涧涨涩涪涫涬涭涮涯涰涱液涳涴涵涶涷涸涹涺涻涼涽涾涿淀淁淂淃淄淅淆淇淈淉淊淋淌淍淎淏淐淑淒淓淔淕淖淗淘淙淚淛淜淝淞淟淠淡淢淣淤淥淦淧淨淩淪淫淬淭淮淯淰深淲淳淴淵淶混淸淹淺添淼淽淾淿"],
      [base |-> 28288, text |-> "満溁溂溃溄溅溆溇溈溉溊溋溌溍溎溏源溑溒溓溔溕準溗溘溙溚溛溜溝溞溟溠溡溢溣溤溥溦溧溨溩溪溫溬溭溮溯溰溱溲溳溴溵溶溷溸溹溺溻溼溽溾溿滀滁滂滃滄滅滆滇滈滉滊滋滌滍滎滏滐滑滒滓滔滕滖滗滘滙滚滛滜滝滞滟滠满滢滣滤滥滦滧滨滩滪滫滬滭滮滯滰滱滲滳滴滵滶滷滸滹滺滻滼滽滾滿"],
      [base |-> 28544, text |-> "澀澁澂澃澄澅澆澇澈澉澊澋澌澍澎澏澐澑澒澓澔澕澖澗澘澙澚澛澜澝澞澟澠澡澢澣澤澥澦澧澨澩澪澫澬澭澮澯澰澱澲澳澴澵澶澷澸澹澺澻澼澽澾澿激濁濂濃濄濅濆濇濈濉濊濋濌濍濎濏濐濑濒濓濔濕濖濗濘濙濚濛濜濝濞濟濠濡濢濣濤濥濦濧濨濩濪濫濬濭濮濯濰濱濲濳濴濵濶濷濸濹濺濻濼濽濾濿"],
      [base |-> 28800, text |-> "炀炁炂炃炄炅炆炇炈炉炊炋炌炍炎炏炐炑炒炓炔炕炖炗炘炙炚炛炜炝炞炟炠炡炢炣炤炥炦炧炨炩炪炫炬炭炮炯炰炱炲炳炴炵炶炷炸点為炻炼炽炾炿烀烁烂烃烄烅烆烇烈烉烊烋烌烍烎烏烐烑烒烓烔烕烖烗烘烙烚烛烜烝烞烟烠烡烢烣烤烥烦烧烨烩烪烫烬热烮烯烰烱烲烳烴烵烶烷烸烹烺烻烼烽烾烿"],
      [base |-> 29056, text |-> "熀熁熂熃熄熅熆熇熈熉熊熋熌熍熎熏熐熑熒熓熔熕熖熗熘熙熚熛熜熝熞熟熠熡熢熣熤熥熦熧熨熩熪熫熬熭熮熯熰熱熲熳熴熵熶熷熸熹熺熻熼熽熾熿燀燁燂燃燄燅燆燇燈燉燊燋燌燍燎燏燐燑燒燓燔燕燖燗燘燙燚燛燜燝燞營燠燡燢燣燤燥燦燧燨燩燪燫燬燭燮燯燰燱燲燳燴燵燶燷燸燹燺燻燼燽燾燿"],
      [base |-> 29312, text |-> "犀犁犂犃犄犅犆犇犈犉犊犋犌犍犎犏犐犑犒犓犔犕犖犗犘犙犚犛犜犝犞犟犠犡犢犣犤犥犦犧犨犩犪犫犬犭犮犯犰犱犲犳犴犵状犷犸犹犺犻犼犽犾犿狀狁狂狃狄狅狆狇狈狉狊狋狌狍狎狏狐狑狒狓狔狕狖狗狘狙狚狛狜狝狞狟狠狡狢狣狤狥狦狧狨狩狪狫独狭狮狯狰狱狲狳狴狵狶狷狸狹狺狻狼狽狾狿"],
      [base |-> 29568, text |-> "玀玁玂玃玄玅玆率玈玉玊王玌玍玎玏玐玑玒玓玔玕玖玗玘玙玚玛玜玝玞玟玠玡玢玣玤玥玦玧玨玩玪玫玬玭玮环现玱玲玳玴玵玶玷玸玹玺玻玼玽玾玿珀珁珂珃珄珅珆珇珈珉珊珋珌珍珎珏珐珑珒珓珔珕珖珗珘珙珚珛珜珝珞珟珠珡珢珣珤珥珦珧珨珩珪珫珬班珮珯珰珱珲珳珴珵珶珷珸珹珺珻珼珽現珿"],
      [base |-> 29824, text |-> "璀璁璂璃璄璅璆璇璈璉璊璋璌璍璎璏璐璑璒璓璔璕璖璗璘璙璚璛璜璝璞璟璠璡璢璣璤璥璦璧璨璩璪璫璬璭璮璯環璱璲璳璴璵璶璷璸璹璺璻璼璽璾璿瓀瓁瓂瓃瓄瓅瓆瓇瓈瓉瓊瓋瓌瓍瓎瓏瓐瓑瓒瓓瓔瓕瓖瓗瓘瓙瓚瓛瓜瓝瓞瓟瓠瓡瓢瓣瓤瓥瓦瓧瓨瓩瓪瓫瓬瓭瓮瓯瓰瓱瓲瓳瓴瓵瓶瓷瓸瓹瓺瓻瓼瓽瓾瓿"],
      [base |-> 30080, text |-> "疀疁疂疃疄疅疆疇疈疉疊疋疌疍疎疏疐疑疒疓疔疕疖疗疘疙疚疛疜疝疞疟疠疡疢疣疤疥疦疧疨疩疪疫疬疭疮疯疰疱疲疳疴疵疶疷疸疹疺疻疼疽疾疿痀痁痂痃痄病痆症痈痉痊痋痌痍痎痏痐痑痒痓痔痕痖痗痘痙痚痛痜痝痞痟痠痡痢痣痤痥痦痧痨痩痪痫痬痭痮痯痰痱痲痳痴痵痶痷痸痹痺痻痼痽痾痿"],
      [base |-> 30336, text |-> "皀皁皂皃的皅皆皇皈皉皊皋皌皍皎皏皐皑皒皓皔皕皖皗皘皙皚皛皜皝皞皟皠皡皢皣皤皥皦皧皨皩皪皫皬皭皮皯皰皱皲皳皴皵皶皷皸皹皺皻皼皽皾皿盀盁盂盃盄盅盆盇盈盉益盋盌盍盎盏盐监盒盓盔盕盖盗盘盙盚盛盜盝盞盟盠盡盢監盤盥盦盧盨盩盪盫盬盭目盯盰盱盲盳直盵盶盷相盹盺盻盼盽盾盿"],
      [base |-> 30592, text |-> "瞀瞁瞂瞃瞄瞅瞆瞇瞈瞉瞊瞋瞌瞍瞎瞏瞐瞑瞒瞓瞔瞕瞖瞗瞘瞙瞚瞛瞜瞝瞞瞟瞠瞡瞢瞣瞤瞥瞦瞧瞨瞩瞪瞫瞬瞭瞮瞯瞰瞱瞲瞳瞴瞵瞶瞷瞸瞹瞺瞻瞼瞽瞾瞿矀矁矂矃矄矅矆矇矈矉矊矋矌矍矎矏矐矑矒矓矔矕矖矗矘矙矚矛矜矝矞矟矠矡矢矣矤知矦矧矨矩矪矫矬短矮矯矰矱矲石矴矵矶矷矸矹矺矻矼矽矾矿"],
      [base |-> 30848, text |-> "碀碁碂碃碄碅碆碇碈碉碊碋碌碍碎碏碐碑碒碓碔碕碖碗碘碙碚碛碜碝碞碟碠碡碢碣碤碥碦碧碨碩碪碫碬碭碮碯碰碱碲碳碴碵碶碷碸碹確碻碼碽碾碿磀磁磂磃磄磅磆磇磈磉磊磋磌磍磎磏磐磑磒磓磔磕磖磗磘磙磚磛磜磝磞磟磠磡磢磣磤磥磦磧磨磩磪磫磬磭磮磯磰磱磲磳磴磵磶磷磸磹磺磻磼磽磾磿"],
      [base |-> 31104, text |-> "禀禁禂禃禄禅禆禇禈禉禊禋禌禍禎福禐禑禒禓禔禕禖禗禘禙禚禛禜禝禞禟禠禡禢禣禤禥禦禧禨禩禪禫禬禭禮禯禰禱禲禳禴禵禶禷禸禹禺离禼禽禾禿秀私秂秃秄秅秆秇秈秉秊秋秌种秎秏秐科秒秓秔秕秖秗秘秙秚秛秜秝秞租秠秡秢秣秤秥秦秧秨秩秪秫秬秭秮积称秱秲秳秴秵秶秷秸秹秺移秼秽秾秿"],
      [base |-> 31360, text |-> "窀突窂窃窄窅窆窇窈窉窊窋窌窍窎窏窐窑窒窓窔窕窖窗窘窙窚窛窜窝窞窟窠窡窢窣窤窥窦窧窨窩窪窫窬窭窮窯窰窱窲窳窴窵窶窷窸窹窺窻窼窽窾窿竀竁竂竃竄竅竆竇竈竉竊立竌竍竎竏竐竑竒竓竔竕竖竗竘站竚竛竜竝竞竟章竡竢竣竤童竦竧竨竩竪竫竬竭竮端竰竱竲竳竴竵競竷竸竹竺竻竼竽竾竿"],
      [base |-> 31616, text |-> "简箁箂箃箄箅箆箇箈箉箊箋箌箍箎箏箐箑箒箓箔箕箖算箘箙箚箛箜箝箞箟箠管箢箣箤箥箦箧箨箩箪箫箬箭箮箯箰箱箲箳箴箵箶箷箸箹箺箻箼箽箾箿節篁篂篃範篅篆篇篈築篊篋篌篍篎篏篐篑篒篓篔篕篖篗篘篙篚篛篜篝篞篟篠篡篢篣篤篥篦篧篨篩篪篫篬篭篮篯篰篱篲篳篴篵篶篷篸篹篺篻篼篽篾篿"],
      [base |-> 31872, text |-> "粀粁粂粃粄粅粆粇粈粉粊粋粌粍粎粏粐粑粒粓粔粕粖粗粘粙粚粛粜粝粞粟粠粡粢粣粤粥粦粧粨粩粪粫粬粭粮粯粰粱粲粳粴粵粶粷粸粹粺粻粼粽精粿糀糁糂糃糄糅糆糇糈糉糊糋糌糍糎糏糐糑糒糓糔糕糖糗糘糙糚糛糜糝糞糟糠糡糢糣糤糥糦糧糨糩糪糫糬糭糮糯糰糱糲糳糴糵糶糷糸糹糺系糼糽糾糿"],
      [base |-> 32128, text |-> "綀綁綂綃綄綅綆綇綈綉綊綋綌綍綎綏綐綑綒經綔綕綖綗綘継続綛綜綝綞綟綠綡綢綣綤綥綦綧綨綩綪綫綬維綮綯綰綱網綳綴綵綶綷綸綹綺綻綼綽綾綿緀緁緂緃緄緅緆緇緈緉緊緋緌緍緎総緐緑緒緓緔緕緖緗緘緙線緛緜緝緞緟締緡緢緣緤緥緦緧編緩緪緫緬緭緮緯緰緱緲緳練緵緶緷緸緹緺緻緼緽緾緿"],
      [base |-> 32384, text |-> "纀纁纂纃纄纅纆纇纈纉纊纋續纍纎纏纐纑纒纓纔纕纖纗纘纙纚纛纜纝纞纟纠纡红纣纤纥约级纨纩纪纫纬纭纮纯纰纱纲纳纴纵纶纷纸纹纺纻纼纽纾线绀绁绂练组绅细织终绉绊绋绌绍绎经绐绑绒结绔绕绖绗绘给绚绛络绝绞统绠绡绢绣绤绥绦继绨绩绪绫绬续绮绯绰绱绲绳维绵绶绷绸绹绺绻综绽绾绿"],
      [base |-> 32640, text |-> "羀羁羂羃羄羅羆羇羈羉羊羋羌羍美羏羐羑羒羓羔羕羖羗羘羙羚羛羜羝羞羟羠羡羢羣群羥羦羧羨義羪羫羬羭羮羯羰羱羲羳羴羵羶羷羸羹羺羻羼羽羾羿翀翁翂翃翄翅翆翇翈翉翊翋翌翍翎翏翐翑習翓翔翕翖翗翘翙翚翛翜翝翞翟翠翡翢翣翤翥翦翧翨翩翪翫翬翭翮翯翰翱翲翳翴翵翶翷翸翹翺翻翼翽翾翿"],
      [base |-> 32896, text |-> "肀肁肂肃肄肅肆肇肈肉肊肋肌肍肎肏肐肑肒肓肔肕肖肗肘肙肚肛肜肝肞肟肠股肢肣肤肥肦肧肨肩肪肫肬肭肮肯肰肱育肳肴肵肶肷肸肹肺肻肼肽肾肿胀胁胂胃胄胅胆胇胈胉胊胋背胍胎胏胐胑胒胓胔胕胖胗胘胙胚胛胜胝胞胟胠胡胢胣胤胥胦胧胨胩胪胫胬胭胮胯胰胱胲胳胴胵胶胷胸胹胺胻胼能胾胿"],
      [base |-> 33152, text |-> "膀膁膂膃膄膅膆膇膈膉膊膋膌膍膎膏膐膑膒膓膔膕膖膗膘膙膚膛膜膝膞膟膠膡膢膣膤膥膦膧膨膩膪膫膬膭膮膯膰膱膲膳膴膵膶膷膸膹膺膻膼膽膾膿臀臁臂臃臄臅臆臇臈臉臊臋臌臍臎臏臐臑臒臓臔臕臖臗臘臙臚臛臜臝臞臟臠臡臢臣臤臥臦臧臨臩自臫臬臭臮臯臰臱臲至致臵臶臷臸臹臺臻臼臽臾臿"],
      [base |-> 33408, text |-> "芀芁节芃芄芅芆芇芈芉芊芋芌芍芎芏芐芑芒芓芔芕芖芗芘芙芚芛芜芝芞芟芠芡芢芣芤芥芦芧芨芩芪芫芬芭芮芯芰花芲芳芴芵芶芷芸芹芺芻芼芽芾芿苀苁苂苃苄苅苆苇苈苉苊苋苌苍苎苏苐苑苒苓苔苕苖苗苘苙苚苛苜苝苞苟苠苡苢苣苤若苦苧苨苩苪苫苬苭苮苯苰英苲苳苴苵苶苷苸苹苺苻苼苽苾苿"],
      [base |-> 33664, text |-> "莀莁莂莃莄莅莆莇莈莉莊莋莌莍莎莏莐莑莒莓莔莕莖莗莘莙莚莛莜莝莞莟莠莡莢莣莤莥莦莧莨莩莪莫莬莭莮莯莰莱莲莳莴莵莶获莸莹莺莻莼莽莾莿菀菁菂菃菄菅菆菇菈菉菊菋菌菍菎菏菐菑菒菓菔菕菖菗菘菙菚菛菜菝菞菟菠菡菢菣菤菥菦菧菨菩菪菫菬菭菮華菰菱菲菳菴菵菶菷菸菹菺菻菼菽菾菿"],
      [base |-> 33920, text |-> "蒀蒁蒂蒃蒄蒅蒆蒇蒈蒉蒊蒋蒌蒍蒎蒏蒐蒑蒒蒓蒔蒕蒖蒗蒘蒙蒚蒛蒜蒝蒞蒟蒠蒡蒢蒣蒤蒥蒦蒧蒨蒩蒪蒫蒬蒭蒮蒯蒰蒱蒲蒳蒴蒵蒶蒷蒸蒹蒺蒻蒼蒽蒾蒿蓀蓁蓂蓃蓄蓅蓆蓇蓈蓉蓊蓋蓌蓍蓎蓏蓐蓑蓒蓓蓔蓕蓖蓗蓘蓙蓚蓛蓜蓝蓞蓟蓠蓡蓢蓣蓤蓥蓦蓧蓨蓩蓪蓫蓬蓭蓮蓯蓰蓱蓲蓳蓴蓵蓶蓷蓸蓹蓺蓻蓼蓽蓾蓿"],
      [base |-> 34176, text |-> "薀薁薂薃薄薅薆薇薈薉薊薋薌薍薎薏薐薑薒薓薔薕薖薗薘薙薚薛薜薝薞薟薠薡薢薣薤薥薦薧薨薩薪薫薬薭薮薯薰薱薲薳薴薵薶薷薸薹薺薻薼薽薾薿藀藁藂藃藄藅藆藇藈藉藊藋藌藍藎藏藐藑藒藓藔藕藖藗藘藙藚藛藜藝藞藟藠藡藢藣藤藥藦藧藨藩藪藫藬藭藮藯藰藱藲藳藴藵藶藷藸藹藺藻藼藽藾藿"],
      [base |-> 34432, text |-> "蚀蚁蚂蚃蚄蚅蚆蚇蚈蚉蚊蚋蚌蚍蚎蚏蚐蚑蚒蚓蚔蚕蚖蚗蚘蚙蚚蚛蚜蚝蚞蚟蚠蚡蚢蚣蚤蚥蚦蚧蚨蚩蚪蚫蚬蚭蚮蚯蚰蚱蚲蚳蚴蚵蚶蚷蚸蚹蚺蚻蚼蚽蚾蚿蛀蛁蛂蛃蛄蛅蛆蛇蛈蛉蛊蛋蛌蛍蛎蛏蛐蛑蛒蛓蛔蛕蛖蛗蛘蛙蛚蛛蛜蛝蛞蛟蛠蛡蛢蛣蛤蛥蛦蛧蛨蛩蛪蛫蛬蛭蛮蛯蛰蛱蛲蛳蛴蛵蛶蛷蛸蛹蛺蛻蛼蛽蛾蛿"],
      [base |-> 34688, text |-> "螀螁螂螃螄螅螆螇螈螉螊螋螌融螎螏螐螑螒螓螔螕螖螗螘螙螚螛螜螝螞螟螠螡螢螣螤螥螦螧螨螩螪螫螬螭螮螯螰螱螲螳螴螵螶螷螸螹螺螻螼螽螾螿蟀蟁蟂蟃蟄蟅蟆蟇蟈蟉蟊蟋蟌蟍蟎蟏蟐蟑蟒蟓蟔蟕蟖蟗蟘蟙蟚蟛蟜蟝蟞蟟蟠蟡蟢蟣蟤蟥蟦蟧蟨蟩蟪蟫蟬蟭蟮蟯蟰蟱蟲蟳蟴蟵蟶蟷蟸蟹蟺蟻蟼蟽蟾蟿"],
      [base |-> 34944, text |-> "袀袁袂袃袄袅袆袇袈袉袊袋袌袍袎袏袐袑袒袓袔袕袖袗袘袙袚袛袜袝袞袟袠袡袢袣袤袥袦袧袨袩袪被袬袭袮袯袰袱袲袳袴袵袶袷袸袹袺袻袼袽袾袿裀裁裂裃裄装裆裇裈裉裊裋裌裍裎裏裐裑裒裓裔裕裖裗裘裙裚裛補裝裞裟裠裡裢裣裤裥裦裧裨裩裪裫裬裭裮裯裰裱裲裳裴裵裶裷裸裹裺裻裼製裾裿"],
      [base |-> 35200, text |-> "覀要覂覃覄覅覆覇覈覉覊見覌覍覎規覐覑覒覓覔覕視覗覘覙覚覛覜覝覞覟覠覡覢覣覤覥覦覧覨覩親覫覬覭覮覯覰覱覲観覴覵覶覷覸覹覺覻覼覽覾覿觀见观觃规觅视觇览觉觊觋觌觍觎觏觐觑角觓觔觕觖觗觘觙觚觛觜觝觞觟觠觡觢解觤觥触觧觨觩觪觫觬觭觮觯觰觱觲觳觴觵觶觷觸觹觺觻觼觽觾觿"],
      [base |-> 35456, text |-> "誀誁誂誃誄誅誆誇誈誉誊誋誌認誎誏誐誑誒誓誔誕誖誗誘誙誚誛誜誝語誟誠誡誢誣誤誥誦誧誨誩說誫説読誮誯誰誱課誳誴誵誶誷誸誹誺誻誼誽誾調諀諁諂諃諄諅諆談諈諉諊請諌諍諎諏諐諑諒諓諔諕論諗諘諙諚諛諜諝諞諟諠諡諢諣諤諥諦諧諨諩諪諫諬諭諮諯諰諱諲諳諴諵諶諷諸諹諺諻諼諽諾諿"],
      [base |-> 35712, text |-> "讀讁讂讃讄讅讆讇讈讉變讋讌讍讎讏讐讑讒讓讔讕讖讗讘讙讚讛讜讝讞讟讠计订讣认讥讦讧讨让讪讫讬训议讯记讱讲讳讴讵讶讷许讹论讻讼讽设访诀证诂诃评诅识诇诈诉诊诋诌词诎诏诐译诒诓诔试诖诗诘诙诚诛诜话诞诟诠诡询诣诤该详诧诨诩诪诫诬语诮误诰诱诲诳说诵诶请诸诹诺读诼诽课诿"],
      [base |-> 35968, text |-> "貀貁貂貃貄貅貆貇貈貉貊貋貌貍貎貏貐貑貒貓貔貕貖貗貘貙貚貛貜貝貞貟負財貢貣貤貥貦貧貨販貪貫責貭貮貯貰貱貲貳貴貵貶買貸貹貺費貼貽貾貿賀賁賂賃賄賅賆資賈賉賊賋賌賍賎賏賐賑賒賓賔賕賖賗賘賙賚賛賜賝賞賟賠賡賢賣賤賥賦賧賨賩質賫賬賭賮賯賰賱賲賳賴賵賶賷賸賹賺賻購賽賾賿"],
      [base |-> 36224, text |-> "趀趁趂趃趄超趆趇趈趉越趋趌趍趎趏趐趑趒趓趔趕趖趗趘趙趚趛趜趝趞趟趠趡趢趣趤趥趦趧趨趩趪趫趬趭趮趯趰趱趲足趴趵趶趷趸趹趺趻趼趽趾趿跀跁跂跃跄跅跆跇跈跉跊跋跌跍跎跏跐跑跒跓跔跕跖跗跘跙跚跛跜距跞跟跠跡跢跣跤跥跦跧跨跩跪跫跬跭跮路跰跱跲跳跴践跶跷跸跹跺跻跼跽跾跿"],
      [base |-> 36480, text |-> "躀躁躂躃躄躅躆躇躈躉躊躋躌躍躎躏躐躑躒躓躔躕躖躗躘躙躚躛躜躝躞躟躠躡躢躣躤躥躦躧躨躩躪身躬躭躮躯躰躱躲躳躴躵躶躷躸躹躺躻躼躽躾躿軀軁軂軃軄軅軆軇軈軉車軋軌軍軎軏軐軑軒軓軔軕軖軗軘軙軚軛軜軝軞軟軠軡転軣軤軥軦軧軨軩軪軫軬軭軮軯軰軱軲軳軴軵軶軷軸軹軺軻軼軽軾軿"],
      [base |-> 36736, text |-> "辀辁辂较辄辅辆辇辈辉辊辋辌辍辎辏辐辑辒输辔辕辖辗辘辙辚辛辜辝辞辟辠辡辢辣辤辥辦辧辨辩辪辫辬辭辮辯辰辱農辳辴辵辶辷辸边辺辻込辽达辿迀迁迂迃迄迅迆过迈迉迊迋迌迍迎迏运近迒迓返迕迖迗还这迚进远违连迟迠迡迢迣迤迥迦迧迨迩迪迫迬迭迮迯述迱迲迳迴迵迶迷迸迹迺迻迼追迾迿"],
      [base |-> 36992, text |-> "邀邁邂邃還邅邆邇邈邉邊邋邌邍邎邏邐邑邒邓邔邕邖邗邘邙邚邛邜邝邞邟邠邡邢那邤邥邦邧邨邩邪邫邬邭邮邯邰邱邲邳邴邵邶邷邸邹邺邻邼邽邾邿郀郁郂郃郄郅郆郇郈郉郊郋郌郍郎郏郐郑郒郓郔郕郖郗郘郙郚郛郜郝郞郟郠郡郢郣郤郥郦郧部郩郪郫郬郭郮郯郰郱郲郳郴郵郶郷郸郹郺郻郼都郾郿"],
      [base |-> 37248, text |-> "醀醁醂醃醄醅醆醇醈醉醊醋醌醍醎醏醐醑醒醓醔醕醖醗醘醙醚醛醜醝醞醟醠醡醢醣醤醥醦醧醨醩醪醫醬醭醮醯醰醱醲醳醴醵醶醷醸醹醺醻醼醽醾醿釀釁釂釃釄釅釆采釈釉释釋里重野量釐金釒釓釔釕釖釗釘釙釚釛釜針釞釟釠釡釢釣釤釥釦釧釨釩釪釫釬釭釮釯釰釱釲釳釴釵釶釷釸釹釺釻釼釽釾釿"],
      [base |-> 37504, text |-> "銀銁銂銃銄銅銆銇銈銉銊銋銌銍銎銏銐銑銒銓銔銕銖銗銘銙銚銛銜銝銞銟銠銡銢銣銤銥銦銧銨銩銪銫銬銭銮銯銰銱銲銳銴銵銶銷銸銹銺銻銼銽銾銿鋀鋁鋂鋃鋄鋅鋆鋇鋈鋉鋊鋋鋌鋍鋎鋏鋐鋑鋒鋓鋔鋕鋖鋗鋘鋙鋚鋛鋜鋝鋞鋟鋠鋡鋢鋣鋤鋥鋦鋧鋨鋩鋪鋫鋬鋭鋮鋯鋰鋱鋲鋳鋴鋵鋶鋷鋸鋹鋺鋻鋼鋽鋾鋿"],
      [base |-> 37760, text |-> "鎀鎁鎂鎃鎄鎅鎆鎇鎈鎉鎊鎋鎌鎍鎎鎏鎐鎑鎒鎓鎔鎕鎖鎗鎘鎙鎚鎛鎜鎝鎞鎟鎠鎡鎢鎣鎤鎥鎦鎧鎨鎩鎪鎫鎬鎭鎮鎯鎰鎱鎲鎳鎴鎵鎶鎷鎸鎹鎺鎻鎼鎽鎾鎿鏀鏁鏂鏃鏄鏅鏆鏇鏈鏉鏊鏋鏌鏍鏎鏏鏐鏑鏒鏓鏔鏕鏖鏗鏘鏙鏚鏛鏜鏝鏞鏟鏠鏡鏢鏣鏤鏥鏦鏧鏨鏩鏪鏫鏬鏭鏮鏯鏰鏱鏲鏳鏴鏵鏶鏷鏸鏹鏺鏻鏼鏽鏾鏿"],
      [base |-> 38016, text |-> "钀钁钂钃钄钅钆钇针钉钊钋钌钍钎钏钐钑钒钓钔钕钖钗钘钙钚钛钜钝钞钟钠钡钢钣钤钥钦钧钨钩钪钫钬钭钮钯钰钱钲钳钴钵钶钷钸钹钺钻钼钽钾钿铀铁铂铃铄铅铆铇铈铉铊铋铌铍铎铏铐铑铒铓铔铕铖铗铘铙铚铛铜铝铞铟铠铡铢铣铤铥铦铧铨铩铪铫铬铭铮铯铰铱铲铳铴铵银铷铸铹铺铻铼铽链铿"],
      [base |-> 38272, text |-> "門閁閂閃閄閅閆閇閈閉閊開閌閍閎閏閐閑閒間閔閕閖閗閘閙閚閛閜閝閞閟閠閡関閣閤閥閦閧閨閩閪閫閬閭閮閯閰閱閲閳閴閵閶閷閸閹閺閻閼閽閾閿闀闁闂闃闄闅闆闇闈闉闊闋闌闍闎闏闐闑闒闓闔闕闖闗闘闙闚闛關闝闞闟闠闡闢闣闤闥闦闧门闩闪闫闬闭问闯闰闱闲闳间闵闶闷闸闹闺闻闼闽闾闿"],
      [base |-> 38528, text |-> "隀隁隂隃隄隅隆隇隈隉隊隋隌隍階随隐隑隒隓隔隕隖隗隘隙隚際障隝隞隟隠隡隢隣隤隥隦隧隨隩險隫隬隭隮隯隰隱隲隳隴隵隶隷隸隹隺隻隼隽难隿雀雁雂雃雄雅集雇雈雉雊雋雌雍雎雏雐雑雒雓雔雕雖雗雘雙雚雛雜雝雞雟雠雡離難雤雥雦雧雨雩雪雫雬雭雮雯雰雱雲雳雴雵零雷雸雹雺電雼雽雾雿"],
      [base |-> 38784, text |-> "鞀鞁鞂鞃鞄鞅鞆鞇鞈鞉鞊鞋鞌鞍鞎鞏鞐鞑鞒鞓鞔鞕鞖鞗鞘鞙鞚鞛鞜鞝鞞鞟鞠鞡鞢鞣鞤鞥鞦鞧鞨鞩鞪鞫鞬鞭鞮鞯鞰鞱鞲鞳鞴鞵鞶鞷鞸鞹鞺鞻鞼鞽鞾鞿韀韁韂韃韄韅韆韇韈韉韊韋韌韍韎韏韐韑韒韓韔韕韖韗韘韙韚韛韜韝韞韟韠韡韢韣韤韥韦韧韨韩韪韫韬韭韮韯韰韱韲音韴韵韶韷韸韹韺韻韼韽韾響"],
      [base |-> 39040, text |-> "颀颁颂颃预颅领颇颈颉颊颋颌颍颎颏颐频颒颓颔颕颖颗题颙颚颛颜额颞颟颠颡颢颣颤颥颦颧風颩颪颫颬颭颮颯颰颱颲颳颴颵颶颷颸颹颺颻颼颽颾颿飀飁飂飃飄飅飆飇飈飉飊飋飌飍风飏飐飑飒飓飔飕飖飗飘飙飚飛飜飝飞食飠飡飢飣飤飥飦飧飨飩飪飫飬飭飮飯飰飱飲飳飴飵飶飷飸飹飺飻飼飽飾飿"],
      [base |-> 39296, text |-> "馀馁馂馃馄馅馆馇馈馉馊馋馌馍馎馏馐馑馒馓馔馕首馗馘香馚馛馜馝馞馟馠馡馢馣馤馥馦馧馨馩馪馫馬馭馮馯馰馱馲馳馴馵馶馷馸馹馺馻馼馽馾馿駀駁駂駃駄駅駆駇駈駉駊駋駌駍駎駏駐駑駒駓駔駕駖駗駘駙駚駛駜駝駞駟駠駡駢駣駤駥駦駧駨駩駪駫駬駭駮駯駰駱駲駳駴駵駶駷駸駹駺駻駼駽駾駿"],
      [base |-> 39552, text |-> "骀骁骂骃骄骅骆骇骈骉骊骋验骍骎骏骐骑骒骓骔骕骖骗骘骙骚骛骜骝骞骟骠骡骢骣骤骥骦骧骨骩骪骫骬骭骮骯骰骱骲骳骴骵骶骷骸骹骺骻骼骽骾骿髀髁髂髃髄髅髆髇髈髉髊髋髌髍髎髏髐髑髒髓體髕髖髗高髙髚髛髜髝髞髟髠髡髢髣髤髥髦髧髨髩髪髫髬髭髮髯髰髱髲髳髴髵髶髷髸髹髺髻髼髽髾髿"],
      [base |-> 39808, text |-> "鮀鮁鮂鮃鮄鮅鮆鮇鮈鮉鮊鮋鮌鮍鮎鮏鮐鮑鮒鮓鮔鮕鮖鮗鮘鮙鮚鮛鮜鮝鮞鮟鮠鮡鮢鮣鮤鮥鮦鮧鮨鮩鮪鮫鮬鮭鮮鮯鮰鮱鮲鮳鮴鮵鮶鮷鮸鮹鮺鮻鮼鮽鮾鮿鯀鯁鯂鯃鯄鯅鯆鯇鯈鯉鯊鯋鯌鯍鯎鯏鯐鯑鯒鯓鯔鯕鯖鯗鯘鯙鯚鯛鯜鯝鯞鯟鯠鯡鯢鯣鯤鯥鯦鯧鯨鯩鯪鯫鯬鯭鯮鯯鯰鯱鯲鯳鯴鯵鯶鯷鯸鯹鯺鯻鯼鯽鯾鯿"],
      [base |-> 40064, text |-> "鲀鲁鲂鲃鲄鲅鲆鲇鲈鲉鲊鲋鲌鲍鲎鲏鲐鲑鲒鲓鲔鲕鲖鲗鲘鲙鲚鲛鲜鲝鲞鲟鲠鲡鲢鲣鲤鲥鲦鲧鲨鲩鲪鲫鲬鲭鲮鲯鲰鲱鲲鲳鲴鲵鲶鲷鲸鲹鲺鲻鲼鲽鲾鲿鳀鳁鳂鳃鳄鳅鳆鳇鳈鳉鳊鳋鳌鳍鳎鳏鳐鳑鳒鳓鳔鳕鳖鳗鳘鳙鳚鳛鳜鳝鳞鳟鳠鳡鳢鳣鳤鳥鳦鳧鳨鳩鳪鳫鳬鳭鳮鳯鳰鳱鳲鳳鳴鳵鳶鳷鳸鳹鳺鳻鳼鳽鳾鳿"],
      [base |-> 40320, text |-> "鶀鶁鶂鶃鶄鶅鶆鶇鶈鶉鶊鶋鶌鶍鶎鶏鶐鶑鶒鶓鶔鶕鶖鶗鶘鶙鶚鶛鶜鶝鶞鶟鶠鶡鶢鶣鶤鶥鶦鶧鶨鶩鶪鶫鶬鶭鶮鶯鶰鶱鶲鶳鶴鶵鶶鶷鶸鶹鶺鶻鶼鶽鶾鶿鷀鷁鷂鷃鷄鷅鷆鷇鷈鷉鷊鷋鷌鷍鷎鷏鷐鷑鷒鷓鷔鷕鷖鷗鷘鷙鷚鷛鷜鷝鷞鷟鷠鷡鷢鷣鷤鷥鷦鷧鷨鷩鷪鷫鷬鷭鷮鷯鷰鷱鷲鷳鷴鷵鷶鷷鷸鷹鷺鷻鷼鷽鷾鷿"],
      [base |-> 40576, text |-> "麀麁麂麃麄麅麆麇麈麉麊麋麌麍麎麏麐麑麒麓麔麕麖麗麘麙麚麛麜麝麞麟麠麡麢麣麤麥麦麧麨麩麪麫麬麭麮麯麰麱麲麳麴麵麶麷麸麹麺麻麼麽麾麿黀黁黂黃黄黅黆黇黈黉黊黋黌黍黎黏黐黑黒黓黔黕黖黗默黙黚黛黜黝點黟黠黡黢黣黤黥黦黧黨黩黪黫黬黭黮黯黰黱黲黳黴黵黶黷黸黹黺黻黼黽黾黿"],
      [base |-> 40832, text |-> "龀龁龂龃龄龅龆龇龈龉龊龋龌龍龎龏龐龑龒龓龔龕龖龗龘龙龚龛龜龝龞龟龠龡龢龣龤龥龦龧龨龩龪龫龬龭龮龯龰龱龲龳龴龵龶龷龸龹龺龻龼龽龾龿鿀鿁鿂鿃鿄鿅鿆鿇鿈鿉鿊鿋鿌鿍鿎鿏鿐鿑鿒鿓鿔鿕鿖鿗鿘鿙鿚鿛鿜鿝鿞鿟鿠鿡鿢鿣鿤鿥鿦鿧鿨鿩鿪鿫鿬鿭鿮鿯鿰鿱鿲鿳鿴鿵鿶鿷鿸鿹鿺鿻鿼鿽鿾鿿"],
      [base |-> 41088, text |-> "ꂀꂁꂂꂃꂄꂅꂆꂇꂈꂉꂊꂋꂌꂍꂎꂏꂐꂑꂒꂓꂔꂕꂖꂗꂘꂙꂚꂛꂜꂝꂞꂟꂠꂡꂢꂣꂤꂥꂦꂧꂨꂩꂪꂫꂬꂭꂮꂯꂰꂱꂲꂳꂴꂵꂶꂷꂸꂹꂺꂻꂼꂽꂾꂿꃀꃁꃂꃃꃄꃅꃆꃇꃈꃉꃊꃋꃌꃍꃎꃏꃐꃑꃒꃓꃔꃕꃖꃗꃘꃙꃚꃛꃜꃝꃞꃟꃠꃡꃢꃣꃤꃥꃦꃧꃨꃩꃪꃫꃬꃭꃮꃯꃰꃱꃲꃳꃴꃵꃶꃷꃸꃹꃺꃻꃼꃽꃾꃿ"],
      [base |-> 41344, text |-> "ꆀꆁꆂꆃꆄꆅꆆꆇꆈꆉꆊꆋꆌꆍꆎꆏꆐꆑꆒꆓꆔꆕꆖꆗꆘꆙꆚꆛꆜꆝꆞꆟꆠꆡꆢꆣꆤꆥꆦꆧꆨꆩꆪꆫꆬꆭꆮꆯꆰꆱꆲꆳꆴꆵꆶꆷꆸꆹꆺꆻꆼꆽꆾꆿꇀꇁꇂꇃꇄꇅꇆꇇꇈꇉꇊꇋꇌꇍꇎꇏꇐꇑꇒꇓꇔꇕꇖꇗꇘꇙꇚꇛꇜꇝꇞꇟꇠꇡꇢꇣꇤꇥꇦꇧꇨꇩꇪꇫꇬꇭꇮꇯꇰꇱꇲꇳꇴꇵꇶꇷꇸꇹꇺꇻꇼꇽꇾꇿ"],
      [base |-> 41600, text |-> "ꊀꊁꊂꊃꊄꊅꊆꊇꊈꊉꊊꊋꊌꊍꊎꊏꊐꊑꊒꊓꊔꊕꊖꊗꊘꊙꊚꊛꊜꊝꊞꊟꊠꊡꊢꊣꊤꊥꊦꊧꊨꊩꊪꊫꊬꊭꊮꊯꊰꊱꊲꊳꊴꊵꊶꊷꊸꊹꊺꊻꊼꊽꊾꊿꋀꋁꋂꋃꋄꋅꋆꋇꋈꋉꋊꋋꋌꋍꋎꋏꋐꋑꋒꋓꋔꋕꋖꋗꋘꋙꋚꋛꋜꋝꋞꋟꋠꋡꋢꋣꋤꋥꋦꋧꋨꋩꋪꋫꋬꋭꋮꋯꋰꋱꋲꋳꋴꋵꋶꋷꋸꋹꋺꋻꋼꋽꋾꋿ"],
      [base |-> 41856, text |-> "ꎀꎁꎂꎃꎄꎅꎆꎇꎈꎉꎊꎋꎌꎍꎎꎏꎐꎑꎒꎓꎔꎕꎖꎗꎘꎙꎚꎛꎜꎝꎞꎟꎠꎡꎢꎣꎤꎥꎦꎧꎨꎩꎪꎫꎬꎭꎮꎯꎰꎱꎲꎳꎴꎵꎶꎷꎸꎹꎺꎻꎼꎽꎾꎿꏀꏁꏂꏃꏄꏅꏆꏇꏈꏉꏊꏋꏌꏍꏎꏏꏐꏑꏒꏓꏔꏕꏖꏗꏘꏙꏚꏛꏜꏝꏞꏟꏠꏡꏢꏣꏤꏥꏦꏧꏨꏩꏪꏫꏬꏭꏮꏯꏰꏱꏲꏳꏴꏵꏶꏷꏸꏹꏺꏻꏼꏽꏾꏿ"],
      [base |-> 42112, text |-> "ꒀꒁꒂꒃꒄꒅꒆꒇꒈꒉꒊꒋꒌ꒍꒎꒏꒐꒑꒒꒓꒔꒕꒖꒗꒘꒙꒚꒛꒜꒝꒞꒟꒠꒡꒢꒣꒤꒥꒦꒧꒨꒩꒪꒫꒬꒭꒮꒯꒰꒱꒲꒳꒴꒵꒶꒷꒸꒹꒺꒻꒼꒽꒾꒿꓀꓁꓂꓃꓄꓅꓆꓇꓈꓉꓊꓋꓌꓍꓎꓏ꓐꓑꓒꓓꓔꓕꓖꓗꓘꓙꓚꓛꓜꓝꓞꓟꓠꓡꓢꓣꓤꓥꓦꓧꓨꓩꓪꓫꓬꓭꓮꓯꓰꓱꓲꓳꓴꓵꓶꓷꓸꓹꓺꓻꓼꓽ꓾꓿"],
      [base |-> 42368, text |-> "ꖀꖁꖂꖃꖄꖅꖆꖇꖈꖉꖊꖋꖌꖍꖎꖏꖐꖑꖒꖓꖔꖕꖖꖗꖘꖙꖚꖛꖜꖝꖞꖟꖠꖡꖢꖣꖤꖥꖦꖧꖨꖩꖪꖫꖬꖭꖮꖯꖰꖱꖲꖳꖴꖵꖶꖷꖸꖹꖺꖻꖼꖽꖾꖿꗀꗁꗂꗃꗄꗅꗆꗇꗈꗉꗊꗋꗌꗍꗎꗏꗐꗑꗒꗓꗔꗕꗖꗗꗘꗙꗚꗛꗜꗝꗞꗟꗠꗡꗢꗣꗤꗥꗦꗧꗨꗩꗪꗫꗬꗭꗮꗯꗰꗱꗲꗳꗴꗵꗶꗷꗸꗹꗺꗻꗼꗽꗾꗿ"],
      [base |-> 42624, text |-> "ꚀꚁꚂꚃꚄꚅꚆꚇꚈꚉꚊꚋꚌꚍꚎꚏꚐꚑꚒꚓꚔꚕꚖꚗꚘꚙꚚꚛꚜꚝꚞꚟꚠꚡꚢꚣꚤꚥꚦꚧꚨꚩꚪꚫꚬꚭꚮꚯꚰꚱꚲꚳꚴꚵꚶꚷꚸꚹꚺꚻꚼꚽꚾꚿꛀꛁꛂꛃꛄꛅꛆꛇꛈꛉꛊꛋꛌꛍꛎꛏꛐꛑꛒꛓꛔꛕꛖꛗꛘꛙꛚꛛꛜꛝꛞꛟꛠꛡꛢꛣꛤꛥꛦꛧꛨꛩꛪꛫꛬꛭꛮꛯ꛰꛱꛲꛳꛴꛵꛶꛷꛸꛹꛺꛻꛼꛽꛾꛿"],
      [base |-> 42880, text |-> "ꞀꞁꞂꞃꞄꞅꞆꞇꞈ꞉꞊ꞋꞌꞍꞎꞏꞐꞑꞒꞓꞔꞕꞖꞗꞘꞙꞚꞛꞜꞝꞞꞟꞠꞡꞢꞣꞤꞥꞦꞧꞨꞩꞪꞫꞬꞭꞮꞯꞰꞱꞲꞳꞴꞵꞶꞷꞸꞹꞺꞻꞼꞽꞾꞿꟀꟁꟂꟃꟄꟅꟆꟇꟈꟉꟊꟋꟌꟍ꟎꟏Ꟑꟑ꟒ꟓ꟔ꟕꟖꟗꟘꟙꟚꟛꟜ꟝꟞꟟꟠꟡꟢꟣꟤꟥꟦꟧꟨꟩꟪꟫꟬꟭꟮꟯꟰꟱ꟲꟳꟴꟵꟶꟷꟸꟹꟺꟻꟼꟽꟾꟿ"],
      [base |-> 43136, text |-> "ꢀꢁꢂꢃꢄꢅꢆꢇꢈꢉꢊꢋꢌꢍꢎꢏꢐꢑꢒꢓꢔꢕꢖꢗꢘꢙꢚꢛꢜꢝꢞꢟꢠꢡꢢꢣꢤꢥꢦꢧꢨꢩꢪꢫꢬꢭꢮꢯꢰꢱꢲꢳꢴꢵꢶꢷꢸꢹꢺꢻꢼꢽꢾꢿꣀꣁꣂꣃ꣄ꣅ꣆꣇꣈꣉꣊꣋꣌꣍꣎꣏꣐꣑꣒꣓꣔꣕꣖꣗꣘꣙꣚꣛꣜꣝꣞꣟꣠꣡꣢꣣꣤꣥꣦꣧꣨꣩꣪꣫꣬꣭꣮꣯꣰꣱ꣲꣳꣴꣵꣶꣷ꣸꣹꣺ꣻ꣼ꣽꣾꣿ"],
      [base |-> 43392, text |-> "ꦀꦁꦂꦃꦄꦅꦆꦇꦈꦉꦊꦋꦌꦍꦎꦏꦐꦑꦒꦓꦔꦕꦖꦗꦘꦙꦚꦛꦜꦝꦞꦟꦠꦡꦢꦣꦤꦥꦦꦧꦨꦩꦪꦫꦬꦭꦮꦯꦰꦱꦲ꦳ꦴꦵꦶꦷꦸꦹꦺꦻꦼꦽꦾꦿ꧀꧁꧂꧃꧄꧅꧆꧇꧈꧉꧊꧋꧌꧍꧎ꧏ꧐꧑꧒꧓꧔꧕꧖꧗꧘꧙꧚꧛꧜꧝꧞꧟ꧠꧡꧢꧣꧤꧥꧦꧧꧨꧩꧪꧫꧬꧭꧮꧯ꧰꧱꧲꧳꧴꧵꧶꧷꧸꧹ꧺꧻꧼꧽꧾ꧿"],
      [base |-> 43648, text |-> "ꪀꪁꪂꪃꪄꪅꪆꪇꪈꪉꪊꪋꪌꪍꪎꪏꪐꪑꪒꪓꪔꪕꪖꪗꪘꪙꪚꪛꪜꪝꪞꪟꪠꪡꪢꪣꪤꪥꪦꪧꪨꪩꪪꪫꪬꪭꪮꪯꪰꪱꪴꪲꪳꪵꪶꪷꪸꪹꪺꪻꪼꪽꪾ꪿ꫀ꫁ꫂ꫃꫄꫅꫆꫇꫈꫉꫊꫋꫌꫍꫎꫏꫐꫑꫒꫓꫔꫕꫖꫗꫘꫙꫚ꫛꫜꫝ꫞꫟ꫠꫡꫢꫣꫤꫥꫦꫧꫨꫩꫪꫫꫬꫭꫮꫯ꫰꫱ꫲꫳꫴꫵ꫶꫷꫸꫹꫺꫻꫼꫽꫾꫿"],
      [base |-> 43904, text |-> "ꮀꮁꮂꮃꮄꮅꮆꮇꮈꮉꮊꮋꮌꮍꮎꮏꮐꮑꮒꮓꮔꮕꮖꮗꮘꮙꮚꮛꮜꮝꮞꮟꮠꮡꮢꮣꮤꮥꮦꮧꮨꮩꮪꮫꮬꮭꮮꮯꮰꮱꮲꮳꮴꮵꮶꮷꮸꮹꮺꮻꮼꮽꮾꮿꯀꯁꯂꯃꯄꯅꯆꯇꯈꯉꯊꯋꯌꯍꯎꯏꯐꯑꯒꯓꯔꯕꯖꯗꯘꯙꯚꯛꯜꯝꯞꯟꯠꯡꯢꯣꯤꯥꯦꯧꯨꯩꯪ꯫꯬꯭꯮꯯꯰꯱꯲꯳꯴꯵꯶꯷꯸꯹꯺꯻꯼꯽꯾꯿"],
      [base |-> 44160, text |-> "검겁겂것겄겅겆겇겈겉겊겋게겍겎겏겐겑겒겓겔겕겖겗겘겙겚겛겜겝겞겟겠겡겢겣겤겥겦겧겨격겪겫견겭겮겯결겱겲겳겴겵겶겷겸겹겺겻겼경겾겿곀곁곂곃계곅곆곇곈곉곊곋곌곍곎곏곐곑곒곓곔곕곖곗곘곙곚곛곜곝곞곟고곡곢곣곤곥곦곧골곩곪곫곬곭곮곯곰곱곲곳곴공곶곷곸곹곺곻과곽곾곿"],
      [base |-> 44416, text |-> "궀궁궂궃궄궅궆궇궈궉궊궋권궍궎궏궐궑궒궓궔궕궖궗궘궙궚궛궜궝궞궟궠궡궢궣궤궥궦궧궨궩궪궫궬궭궮궯궰궱궲궳궴궵궶궷궸궹궺궻궼궽궾궿귀귁귂귃귄귅귆귇귈귉귊귋귌귍귎귏귐귑귒귓귔귕귖귗귘귙귚귛규귝귞귟균귡귢귣귤귥귦귧귨귩귪귫귬귭귮귯귰귱귲귳귴귵귶귷그극귺귻근귽귾귿"],
      [base |-> 44672, text |-> "꺀꺁꺂꺃꺄꺅꺆꺇꺈꺉꺊꺋꺌꺍꺎꺏꺐꺑꺒꺓꺔꺕꺖꺗꺘꺙꺚꺛꺜꺝꺞꺟꺠꺡꺢꺣꺤꺥꺦꺧꺨꺩꺪꺫꺬꺭꺮꺯꺰꺱꺲꺳꺴꺵꺶꺷꺸꺹꺺꺻꺼꺽꺾꺿껀껁껂껃껄껅껆껇껈껉껊껋껌껍껎껏껐껑껒껓껔껕껖껗께껙껚껛껜껝껞껟껠껡껢껣껤껥껦껧껨껩껪껫껬껭껮껯껰껱껲껳껴껵껶껷껸껹껺껻껼껽껾껿"],
      [base |-> 44928, text |-> "꾀꾁꾂꾃꾄꾅꾆꾇꾈꾉꾊꾋꾌꾍꾎꾏꾐꾑꾒꾓꾔꾕꾖꾗꾘꾙꾚꾛꾜꾝꾞꾟꾠꾡꾢꾣꾤꾥꾦꾧꾨꾩꾪꾫꾬꾭꾮꾯꾰꾱꾲꾳꾴꾵꾶꾷꾸꾹꾺꾻꾼꾽꾾꾿꿀꿁꿂꿃꿄꿅꿆꿇꿈꿉꿊꿋꿌꿍꿎꿏꿐꿑꿒꿓꿔꿕꿖꿗꿘꿙꿚꿛꿜꿝꿞꿟꿠꿡꿢꿣꿤꿥꿦꿧꿨꿩꿪꿫꿬꿭꿮꿯꿰꿱꿲꿳꿴꿵꿶꿷꿸꿹꿺꿻꿼꿽꿾꿿"],
      [base |-> 45184, text |-> "낀낁낂낃낄낅낆낇낈낉낊낋낌낍낎낏낐낑낒낓낔낕낖낗나낙낚낛난낝낞낟날낡낢낣낤낥낦낧남납낪낫났낭낮낯낰낱낲낳내낵낶낷낸낹낺낻낼낽낾낿냀냁냂냃냄냅냆냇냈냉냊냋냌냍냎냏냐냑냒냓냔냕냖냗냘냙냚냛냜냝냞냟냠냡냢냣냤냥냦냧냨냩냪냫냬냭냮냯냰냱냲냳냴냵냶냷냸냹냺냻냼냽냾냿"],
      [base |-> 45440, text |-> "놀놁놂놃놄놅놆놇놈놉놊놋놌농놎놏놐놑높놓놔놕놖놗놘놙놚놛놜놝놞놟놠놡놢놣놤놥놦놧놨놩놪놫놬놭놮놯놰놱놲놳놴놵놶놷놸놹놺놻놼놽놾놿뇀뇁뇂뇃뇄뇅뇆뇇뇈뇉뇊뇋뇌뇍뇎뇏뇐뇑뇒뇓뇔뇕뇖뇗뇘뇙뇚뇛뇜뇝뇞뇟뇠뇡뇢뇣뇤뇥뇦뇧뇨뇩뇪뇫뇬뇭뇮뇯뇰뇱뇲뇳뇴뇵뇶뇷뇸뇹뇺뇻뇼뇽뇾뇿"],
      [base |-> 45696, text |-> "늀늁늂늃늄늅늆늇늈늉늊늋늌늍늎늏느늑늒늓는늕늖늗늘늙늚늛늜늝늞늟늠늡늢늣늤능늦늧늨늩늪늫늬늭늮늯늰늱늲늳늴늵늶늷늸늹늺늻늼늽늾늿닀닁닂닃닄닅닆닇니닉닊닋닌닍닎닏닐닑닒닓닔닕닖닗님닙닚닛닜닝닞닟닠닡닢닣다닥닦닧단닩닪닫달닭닮닯닰닱닲닳담답닶닷닸당닺닻닼닽닾닿"],
      [base |-> 45952, text |-> "뎀뎁뎂뎃뎄뎅뎆뎇뎈뎉뎊뎋뎌뎍뎎뎏뎐뎑뎒뎓뎔뎕뎖뎗뎘뎙뎚뎛뎜뎝뎞뎟뎠뎡뎢뎣뎤뎥뎦뎧뎨뎩뎪뎫뎬뎭뎮뎯뎰뎱뎲뎳뎴뎵뎶뎷뎸뎹뎺뎻뎼뎽뎾뎿돀돁돂돃도독돆돇돈돉돊돋돌돍돎돏돐돑돒돓돔돕돖돗돘동돚돛돜돝돞돟돠돡돢돣돤돥돦돧돨돩돪돫돬돭돮돯돰돱돲돳돴돵돶돷돸돹돺돻돼돽돾돿"],
      [base |-> 46208, text |-> "뒀뒁뒂뒃뒄뒅뒆뒇뒈뒉뒊뒋뒌뒍뒎뒏뒐뒑뒒뒓뒔뒕뒖뒗뒘뒙뒚뒛뒜뒝뒞뒟뒠뒡뒢뒣뒤뒥뒦뒧뒨뒩뒪뒫뒬뒭뒮뒯뒰뒱뒲뒳뒴뒵뒶뒷뒸뒹뒺뒻뒼뒽뒾뒿듀듁듂듃듄듅듆듇듈듉듊듋듌듍듎듏듐듑듒듓듔듕듖듗듘듙듚듛드득듞듟든듡듢듣들듥듦듧듨듩듪듫듬듭듮듯듰등듲듳듴듵듶듷듸듹듺듻듼듽듾듿"],
      [base |-> 46464, text |-> "떀떁떂떃떄떅떆떇떈떉떊떋떌떍떎떏떐떑떒떓떔떕떖떗떘떙떚떛떜떝떞떟떠떡떢떣떤떥떦떧떨떩떪떫떬떭떮떯떰떱떲떳떴떵떶떷떸떹떺떻떼떽떾떿뗀뗁뗂뗃뗄뗅뗆뗇뗈뗉뗊뗋뗌뗍뗎뗏뗐뗑뗒뗓뗔뗕뗖뗗뗘뗙뗚뗛뗜뗝뗞뗟뗠뗡뗢뗣뗤뗥뗦뗧뗨뗩뗪뗫뗬뗭뗮뗯뗰뗱뗲뗳뗴뗵뗶뗷뗸뗹뗺뗻뗼뗽뗾뗿"],
      [base |-> 46720, text |-> "뚀뚁뚂뚃뚄뚅뚆뚇뚈뚉뚊뚋뚌뚍뚎뚏뚐뚑뚒뚓뚔뚕뚖뚗뚘뚙뚚뚛뚜뚝뚞뚟뚠뚡뚢뚣뚤뚥뚦뚧뚨뚩뚪뚫뚬뚭뚮뚯뚰뚱뚲뚳뚴뚵뚶뚷뚸뚹뚺뚻뚼뚽뚾뚿뛀뛁뛂뛃뛄뛅뛆뛇뛈뛉뛊뛋뛌뛍뛎뛏뛐뛑뛒뛓뛔뛕뛖뛗뛘뛙뛚뛛뛜뛝뛞뛟뛠뛡뛢뛣뛤뛥뛦뛧뛨뛩뛪뛫뛬뛭뛮뛯뛰뛱뛲뛳뛴뛵뛶뛷뛸뛹뛺뛻뛼뛽뛾뛿"],
      [base |-> 46976, text |-> "란랁랂랃랄랅랆랇랈랉랊랋람랍랎랏랐랑랒랓랔랕랖랗래랙랚랛랜랝랞랟랠랡랢랣랤랥랦랧램랩랪랫랬랭랮랯랰랱랲랳랴략랶랷랸랹랺랻랼랽랾랿럀럁럂럃럄럅럆럇럈량럊럋럌럍럎럏럐럑럒럓럔럕럖럗럘럙럚럛럜럝럞럟럠럡럢럣럤럥럦럧럨럩럪럫러럭럮럯런럱럲럳럴럵럶럷럸럹럺럻럼럽럾럿"],
      [base |-> 47232, text |-> "뢀뢁뢂뢃뢄뢅뢆뢇뢈뢉뢊뢋뢌뢍뢎뢏뢐뢑뢒뢓뢔뢕뢖뢗뢘뢙뢚뢛뢜뢝뢞뢟뢠뢡뢢뢣뢤뢥뢦뢧뢨뢩뢪뢫뢬뢭뢮뢯뢰뢱뢲뢳뢴뢵뢶뢷뢸뢹뢺뢻뢼뢽뢾뢿룀룁룂룃룄룅룆룇룈룉룊룋료룍룎룏룐룑룒룓룔룕룖룗룘룙룚룛룜룝룞룟룠룡룢룣룤룥룦룧루룩룪룫룬룭룮룯룰룱룲룳룴룵룶룷룸룹룺룻룼룽룾룿"],
      [base |-> 47488, text |-> "릀릁릂릃름릅릆릇릈릉릊릋릌릍릎릏릐릑릒릓릔릕릖릗릘릙릚릛릜릝릞릟릠릡릢릣릤릥릦릧릨릩릪릫리릭릮릯린릱릲릳릴릵릶릷릸릹릺릻림립릾릿맀링맂맃맄맅맆맇마막맊맋만맍많맏말맑맒맓맔맕맖맗맘맙맚맛맜망맞맟맠맡맢맣매맥맦맧맨맩맪맫맬맭맮맯맰맱맲맳맴맵맶맷맸맹맺맻맼맽맾맿"],
      [base |-> 47744, text |-> "몀몁몂몃몄명몆몇몈몉몊몋몌몍몎몏몐몑몒몓몔몕몖몗몘몙몚몛몜몝몞몟몠몡몢몣몤몥몦몧모목몪몫몬몭몮몯몰몱몲몳몴몵몶몷몸몹몺못몼몽몾몿뫀뫁뫂뫃뫄뫅뫆뫇뫈뫉뫊뫋뫌뫍뫎뫏뫐뫑뫒뫓뫔뫕뫖뫗뫘뫙뫚뫛뫜뫝뫞뫟뫠뫡뫢뫣뫤뫥뫦뫧뫨뫩뫪뫫뫬뫭뫮뫯뫰뫱뫲뫳뫴뫵뫶뫷뫸뫹뫺뫻뫼뫽뫾뫿"],
      [base |-> 48000, text |-> "뮀뮁뮂뮃뮄뮅뮆뮇뮈뮉뮊뮋뮌뮍뮎뮏뮐뮑뮒뮓뮔뮕뮖뮗뮘뮙뮚뮛뮜뮝뮞뮟뮠뮡뮢뮣뮤뮥뮦뮧뮨뮩뮪뮫뮬뮭뮮뮯뮰뮱뮲뮳뮴뮵뮶뮷뮸뮹뮺뮻뮼뮽뮾뮿므믁믂믃믄믅믆믇믈믉믊믋믌믍믎믏믐믑믒믓믔믕믖믗믘믙믚믛믜믝믞믟믠믡믢믣믤믥믦믧믨믩믪믫믬믭믮믯믰믱믲믳믴믵믶믷미믹믺믻민믽믾믿"],
      [base |-> 48256, text |-> "벀벁벂벃버벅벆벇번벉벊벋벌벍벎벏벐벑벒벓범법벖벗벘벙벚벛벜벝벞벟베벡벢벣벤벥벦벧벨벩벪벫벬벭벮벯벰벱벲벳벴벵벶벷벸벹벺벻벼벽벾벿변볁볂볃별볅볆볇볈볉볊볋볌볍볎볏볐병볒볓볔볕볖볗볘볙볚볛볜볝볞볟볠볡볢볣볤볥볦볧볨볩볪볫볬볭볮볯볰볱볲볳보복볶볷본볹볺볻볼볽볾볿"],
      [base |-> 48512, text |-> "부북붂붃분붅붆붇불붉붊붋붌붍붎붏붐붑붒붓붔붕붖붗붘붙붚붛붜붝붞붟붠붡붢붣붤붥붦붧붨붩붪붫붬붭붮붯붰붱붲붳붴붵붶붷붸붹붺붻붼붽붾붿뷀뷁뷂뷃뷄뷅뷆뷇뷈뷉뷊뷋뷌뷍뷎뷏뷐뷑뷒뷓뷔뷕뷖뷗뷘뷙뷚뷛뷜뷝뷞뷟뷠뷡뷢뷣뷤뷥뷦뷧뷨뷩뷪뷫뷬뷭뷮뷯뷰뷱뷲뷳뷴뷵뷶뷷뷸뷹뷺뷻뷼뷽뷾뷿"],
      [base |-> 48768, text |-> "뺀뺁뺂뺃뺄뺅뺆뺇뺈뺉뺊뺋뺌뺍뺎뺏뺐뺑뺒뺓뺔뺕뺖뺗뺘뺙뺚뺛뺜뺝뺞뺟뺠뺡뺢뺣뺤뺥뺦뺧뺨뺩뺪뺫뺬뺭뺮뺯뺰뺱뺲뺳뺴뺵뺶뺷뺸뺹뺺뺻뺼뺽뺾뺿뻀뻁뻂뻃뻄뻅뻆뻇뻈뻉뻊뻋뻌뻍뻎뻏뻐뻑뻒뻓뻔뻕뻖뻗뻘뻙뻚뻛뻜뻝뻞뻟뻠뻡뻢뻣뻤뻥뻦뻧뻨뻩뻪뻫뻬뻭뻮뻯뻰뻱뻲뻳뻴뻵뻶뻷뻸뻹뻺뻻뻼뻽뻾뻿"],
      [base |-> 49024, text |-> "뾀뾁뾂뾃뾄뾅뾆뾇뾈뾉뾊뾋뾌뾍뾎뾏뾐뾑뾒뾓뾔뾕뾖뾗뾘뾙뾚뾛뾜뾝뾞뾟뾠뾡뾢뾣뾤뾥뾦뾧뾨뾩뾪뾫뾬뾭뾮뾯뾰뾱뾲뾳뾴뾵뾶뾷뾸뾹뾺뾻뾼뾽뾾뾿뿀뿁뿂뿃뿄뿅뿆뿇뿈뿉뿊뿋뿌뿍뿎뿏뿐뿑뿒뿓뿔뿕뿖뿗뿘뿙뿚뿛뿜뿝뿞뿟뿠뿡뿢뿣뿤뿥뿦뿧뿨뿩뿪뿫뿬뿭뿮뿯뿰뿱뿲뿳뿴뿵뿶뿷뿸뿹뿺뿻뿼뿽뿾뿿"],
      [base |-> 49280, text |-> "삀삁삂삃삄삅삆삇삈삉삊삋삌삍삎삏삐삑삒삓삔삕삖삗삘삙삚삛삜삝삞삟삠삡삢삣삤삥삦삧삨삩삪삫사삭삮삯산삱삲삳살삵삶삷삸삹삺삻삼삽삾삿샀상샂샃샄샅샆샇새색샊샋샌샍샎샏샐샑샒샓샔샕샖샗샘샙샚샛샜생샞샟샠샡샢샣샤샥샦샧샨샩샪샫샬샭샮샯샰샱샲샳샴샵샶샷샸샹샺샻샼샽샾샿"],
      [base |-> 49536, text |-> "솀솁솂솃솄솅솆솇솈솉솊솋소속솎솏손솑솒솓솔솕솖솗솘솙솚솛솜솝솞솟솠송솢솣솤솥솦솧솨솩솪솫솬솭솮솯솰솱솲솳솴솵솶솷솸솹솺솻솼솽솾솿쇀쇁쇂쇃쇄쇅쇆쇇쇈쇉쇊쇋쇌쇍쇎쇏쇐쇑쇒쇓쇔쇕쇖쇗쇘쇙쇚쇛쇜쇝쇞쇟쇠쇡쇢쇣쇤쇥쇦쇧쇨쇩쇪쇫쇬쇭쇮쇯쇰쇱쇲쇳쇴쇵쇶쇷쇸쇹쇺쇻쇼쇽쇾쇿"],
      [base |-> 49792, text |-> "슀슁슂슃슄슅슆슇슈슉슊슋슌슍슎슏슐슑슒슓슔슕슖슗슘슙슚슛슜슝슞슟슠슡슢슣스슥슦슧슨슩슪슫슬슭슮슯슰슱슲슳슴습슶슷슸승슺슻슼슽슾슿싀싁싂싃싄싅싆싇싈싉싊싋싌싍싎싏싐싑싒싓싔싕싖싗싘싙싚싛시식싞싟신싡싢싣실싥싦싧싨싩싪싫심십싮싯싰싱싲싳싴싵싶싷싸싹싺싻싼싽싾싿"],
      [base |-> 50048, text |-> "쎀쎁쎂쎃쎄쎅쎆쎇쎈쎉쎊쎋쎌쎍쎎쎏쎐쎑쎒쎓쎔쎕쎖쎗쎘쎙쎚쎛쎜쎝쎞쎟쎠쎡쎢쎣쎤쎥쎦쎧쎨쎩쎪쎫쎬쎭쎮쎯쎰쎱쎲쎳쎴쎵쎶쎷쎸쎹쎺쎻쎼쎽쎾쎿쏀쏁쏂쏃쏄쏅쏆쏇쏈쏉쏊쏋쏌쏍쏎쏏쏐쏑쏒쏓쏔쏕쏖쏗쏘쏙쏚쏛쏜쏝쏞쏟쏠쏡쏢쏣쏤쏥쏦쏧쏨쏩쏪쏫쏬쏭쏮쏯쏰쏱쏲쏳쏴쏵쏶쏷쏸쏹쏺쏻쏼쏽쏾쏿"],
      [base |-> 50304, text |-> "쒀쒁쒂쒃쒄쒅쒆쒇쒈쒉쒊쒋쒌쒍쒎쒏쒐쒑쒒쒓쒔쒕쒖쒗쒘쒙쒚쒛쒜쒝쒞쒟쒠쒡쒢쒣쒤쒥쒦쒧쒨쒩쒪쒫쒬쒭쒮쒯쒰쒱쒲쒳쒴쒵쒶쒷쒸쒹쒺쒻쒼쒽쒾쒿쓀쓁쓂쓃쓄쓅쓆쓇쓈쓉쓊쓋쓌쓍쓎쓏쓐쓑쓒쓓쓔쓕쓖쓗쓘쓙쓚쓛쓜쓝쓞쓟쓠쓡쓢쓣쓤쓥쓦쓧쓨쓩쓪쓫쓬쓭쓮쓯쓰쓱쓲쓳쓴쓵쓶쓷쓸쓹쓺쓻쓼쓽쓾쓿"],
      [base |-> 50560, text |-> "얀얁얂얃얄얅얆얇얈얉얊얋얌얍얎얏얐양얒얓얔얕얖얗얘얙얚얛얜얝얞얟얠얡얢얣얤얥얦얧얨얩얪얫얬얭얮얯얰얱얲얳어억얶얷언얹얺얻얼얽얾얿엀엁엂엃엄업없엇었엉엊엋엌엍엎엏에엑엒엓엔엕엖엗엘엙엚엛엜엝엞엟엠엡엢엣엤엥엦엧엨엩엪엫여역엮엯연엱엲엳열엵엶엷엸엹엺엻염엽엾엿"],
      [base |-> 50816, text |-> "욀욁욂욃욄욅욆욇욈욉욊욋욌욍욎욏욐욑욒욓요욕욖욗욘욙욚욛욜욝욞욟욠욡욢욣욤욥욦욧욨용욪욫욬욭욮욯우욱욲욳운욵욶욷울욹욺욻욼욽욾욿움웁웂웃웄웅웆웇웈웉웊웋워웍웎웏원웑웒웓월웕웖웗웘웙웚웛웜웝웞웟웠웡웢웣웤웥웦웧웨웩웪웫웬웭웮웯웰웱웲웳웴웵웶웷웸웹웺웻웼웽웾웿"],
      [base |-> 51072, text |-> "잀잁잂잃임입잆잇있잉잊잋잌잍잎잏자작잒잓잔잕잖잗잘잙잚잛잜잝잞잟잠잡잢잣잤장잦잧잨잩잪잫재잭잮잯잰잱잲잳잴잵잶잷잸잹잺잻잼잽잾잿쟀쟁쟂쟃쟄쟅쟆쟇쟈쟉쟊쟋쟌쟍쟎쟏쟐쟑쟒쟓쟔쟕쟖쟗쟘쟙쟚쟛쟜쟝쟞쟟쟠쟡쟢쟣쟤쟥쟦쟧쟨쟩쟪쟫쟬쟭쟮쟯쟰쟱쟲쟳쟴쟵쟶쟷쟸쟹쟺쟻쟼쟽쟾쟿"],
      [base |-> 51328, text |-> "좀좁좂좃좄종좆좇좈좉좊좋좌좍좎좏좐좑좒좓좔좕좖좗좘좙좚좛좜좝좞좟좠좡좢좣좤좥좦좧좨좩좪좫좬좭좮좯좰좱좲좳좴좵좶좷좸좹좺좻좼좽좾좿죀죁죂죃죄죅죆죇죈죉죊죋죌죍죎죏죐죑죒죓죔죕죖죗죘죙죚죛죜죝죞죟죠죡죢죣죤죥죦죧죨죩죪죫죬죭죮죯죰죱죲죳죴죵죶죷죸죹죺죻주죽죾죿"],
      [base |-> 51584, text |-> "즀즁즂즃즄즅즆즇즈즉즊즋즌즍즎즏즐즑즒즓즔즕즖즗즘즙즚즛즜증즞즟즠즡즢즣즤즥즦즧즨즩즪즫즬즭즮즯즰즱즲즳즴즵즶즷즸즹즺즻즼즽즾즿지직짂짃진짅짆짇질짉짊짋짌짍짎짏짐집짒짓짔징짖짗짘짙짚짛짜짝짞짟짠짡짢짣짤짥짦짧짨짩짪짫짬짭짮짯짰짱짲짳짴짵짶짷째짹짺짻짼짽짾짿"],
      [base |-> 51840, text |-> "쪀쪁쪂쪃쪄쪅쪆쪇쪈쪉쪊쪋쪌쪍쪎쪏쪐쪑쪒쪓쪔쪕쪖쪗쪘쪙쪚쪛쪜쪝쪞쪟쪠쪡쪢쪣쪤쪥쪦쪧쪨쪩쪪쪫쪬쪭쪮쪯쪰쪱쪲쪳쪴쪵쪶쪷쪸쪹쪺쪻쪼쪽쪾쪿쫀쫁쫂쫃쫄쫅쫆쫇쫈쫉쫊쫋쫌쫍쫎쫏쫐쫑쫒쫓쫔쫕쫖쫗쫘쫙쫚쫛쫜쫝쫞쫟쫠쫡쫢쫣쫤쫥쫦쫧쫨쫩쫪쫫쫬쫭쫮쫯쫰쫱쫲쫳쫴쫵쫶쫷쫸쫹쫺쫻쫼쫽쫾쫿"],
      [base |-> 52096, text |-> "쮀쮁쮂쮃쮄쮅쮆쮇쮈쮉쮊쮋쮌쮍쮎쮏쮐쮑쮒쮓쮔쮕쮖쮗쮘쮙쮚쮛쮜쮝쮞쮟쮠쮡쮢쮣쮤쮥쮦쮧쮨쮩쮪쮫쮬쮭쮮쮯쮰쮱쮲쮳쮴쮵쮶쮷쮸쮹쮺쮻쮼쮽쮾쮿쯀쯁쯂쯃쯄쯅쯆쯇쯈쯉쯊쯋쯌쯍쯎쯏쯐쯑쯒쯓쯔쯕쯖쯗쯘쯙쯚쯛쯜쯝쯞쯟쯠쯡쯢쯣쯤쯥쯦쯧쯨쯩쯪쯫쯬쯭쯮쯯쯰쯱쯲쯳쯴쯵쯶쯷쯸쯹쯺쯻쯼쯽쯾쯿"],
      [base |-> 52352, text |-> "첀첁첂첃첄첅첆첇첈첉첊첋첌첍첎첏첐첑첒첓첔첕첖첗처척첚첛천첝첞첟철첡첢첣첤첥첦첧첨첩첪첫첬청첮첯첰첱첲첳체첵첶첷첸첹첺첻첼첽첾첿쳀쳁쳂쳃쳄쳅쳆쳇쳈쳉쳊쳋쳌쳍쳎쳏쳐쳑쳒쳓쳔쳕쳖쳗쳘쳙쳚쳛쳜쳝쳞쳟쳠쳡쳢쳣쳤쳥쳦쳧쳨쳩쳪쳫쳬쳭쳮쳯쳰쳱쳲쳳쳴쳵쳶쳷쳸쳹쳺쳻쳼쳽쳾쳿"],
      [base |-> 52608, text |-> "춀춁춂춃춄춅춆춇춈춉춊춋춌춍춎춏춐춑춒춓추축춖춗춘춙춚춛출춝춞춟춠춡춢춣춤춥춦춧춨충춪춫춬춭춮춯춰춱춲춳춴춵춶춷춸춹춺춻춼춽춾춿췀췁췂췃췄췅췆췇췈췉췊췋췌췍췎췏췐췑췒췓췔췕췖췗췘췙췚췛췜췝췞췟췠췡췢췣췤췥췦췧취췩췪췫췬췭췮췯췰췱췲췳췴췵췶췷췸췹췺췻췼췽췾췿"],
      [base |-> 52864, text |-> "캀캁캂캃캄캅캆캇캈캉캊캋캌캍캎캏캐캑캒캓캔캕캖캗캘캙캚캛캜캝캞캟캠캡캢캣캤캥캦캧캨캩캪캫캬캭캮캯캰캱캲캳캴캵캶캷캸캹캺캻캼캽캾캿컀컁컂컃컄컅컆컇컈컉컊컋컌컍컎컏컐컑컒컓컔컕컖컗컘컙컚컛컜컝컞컟컠컡컢컣커컥컦컧컨컩컪컫컬컭컮컯컰컱컲컳컴컵컶컷컸컹컺컻컼컽컾컿"],
      [base |-> 53120, text |-> "쾀쾁쾂쾃쾄쾅쾆쾇쾈쾉쾊쾋쾌쾍쾎쾏쾐쾑쾒쾓쾔쾕쾖쾗쾘쾙쾚쾛쾜쾝쾞쾟쾠쾡쾢쾣쾤쾥쾦쾧쾨쾩쾪쾫쾬쾭쾮쾯쾰쾱쾲쾳쾴쾵쾶쾷쾸쾹쾺쾻쾼쾽쾾쾿쿀쿁쿂쿃쿄쿅쿆쿇쿈쿉쿊쿋쿌쿍쿎쿏쿐쿑쿒쿓쿔쿕쿖쿗쿘쿙쿚쿛쿜쿝쿞쿟쿠쿡쿢쿣쿤쿥쿦쿧쿨쿩쿪쿫쿬쿭쿮쿯쿰쿱쿲쿳쿴쿵쿶쿷쿸쿹쿺쿻쿼쿽쿾쿿"],
      [base |-> 53376, text |-> "킀킁킂킃킄킅킆킇킈킉킊킋킌킍킎킏킐킑킒킓킔킕킖킗킘킙킚킛킜킝킞킟킠킡킢킣키킥킦킧킨킩킪킫킬킭킮킯킰킱킲킳킴킵킶킷킸킹킺킻킼킽킾킿타탁탂탃탄탅탆탇탈탉탊탋탌탍탎탏탐탑탒탓탔탕탖탗탘탙탚탛태택탞탟탠탡탢탣탤탥탦탧탨탩탪탫탬탭탮탯탰탱탲탳탴탵탶탷탸탹탺탻탼탽탾탿"],
      [base |-> 53632, text |-> "톀톁톂톃톄톅톆톇톈톉톊톋톌톍톎톏톐톑톒톓톔톕톖톗톘톙톚톛톜톝톞톟토톡톢톣톤톥톦톧톨톩톪톫톬톭톮톯톰톱톲톳톴통톶톷톸톹톺톻톼톽톾톿퇀퇁퇂퇃퇄퇅퇆퇇퇈퇉퇊퇋퇌퇍퇎퇏퇐퇑퇒퇓퇔퇕퇖퇗퇘퇙퇚퇛퇜퇝퇞퇟퇠퇡퇢퇣퇤퇥퇦퇧퇨퇩퇪퇫퇬퇭퇮퇯퇰퇱퇲퇳퇴퇵퇶퇷퇸퇹퇺퇻퇼퇽퇾퇿"],
      [base |-> 53888, text |-> "튀튁튂튃튄튅튆튇튈튉튊튋튌튍튎튏튐튑튒튓튔튕튖튗튘튙튚튛튜튝튞튟튠튡튢튣튤튥튦튧튨튩튪튫튬튭튮튯튰튱튲튳튴튵튶튷트특튺튻튼튽튾튿틀틁틂틃틄틅틆틇틈틉틊틋틌틍틎틏틐틑틒틓틔틕틖틗틘틙틚틛틜틝틞틟틠틡틢틣틤틥틦틧틨틩틪틫틬틭틮틯티틱틲틳틴틵틶틷틸틹틺틻틼틽틾틿"],
      [base |-> 54144, text |-> "펀펁펂펃펄펅펆펇펈펉펊펋펌펍펎펏펐펑펒펓펔펕펖펗페펙펚펛펜펝펞펟펠펡펢펣펤펥펦펧펨펩펪펫펬펭펮펯펰펱펲펳펴펵펶펷편펹펺펻펼펽펾펿폀폁폂폃폄폅폆폇폈평폊폋폌폍폎폏폐폑폒폓폔폕폖폗폘폙폚폛폜폝폞폟폠폡폢폣폤폥폦폧폨폩폪폫포폭폮폯폰폱폲폳폴폵폶폷폸폹폺폻폼폽폾폿"],
      [base |-> 54400, text |-> "풀풁풂풃풄풅풆풇품풉풊풋풌풍풎풏풐풑풒풓풔풕풖풗풘풙풚풛풜풝풞풟풠풡풢풣풤풥풦풧풨풩풪풫풬풭풮풯풰풱풲풳풴풵풶풷풸풹풺풻풼풽풾풿퓀퓁퓂퓃퓄퓅퓆퓇퓈퓉퓊퓋퓌퓍퓎퓏퓐퓑퓒퓓퓔퓕퓖퓗퓘퓙퓚퓛퓜퓝퓞퓟퓠퓡퓢퓣퓤퓥퓦퓧퓨퓩퓪퓫퓬퓭퓮퓯퓰퓱퓲퓳퓴퓵퓶퓷퓸퓹퓺퓻퓼퓽퓾퓿"],
      [base |-> 54656, text |-> "햀햁햂햃햄햅햆햇했행햊햋햌햍햎햏햐햑햒햓햔햕햖햗햘햙햚햛햜햝햞햟햠햡햢햣햤향햦햧햨햩햪햫햬햭햮햯햰햱햲햳햴햵햶햷햸햹햺햻햼햽햾햿헀헁헂헃헄헅헆헇허헉헊헋헌헍헎헏헐헑헒헓헔헕헖헗험헙헚헛헜헝헞헟헠헡헢헣헤헥헦헧헨헩헪헫헬헭헮헯헰헱헲헳헴헵헶헷헸헹헺헻헼헽헾헿"],
      [base |-> 54912, text |-> "횀횁횂횃횄횅횆횇횈횉횊횋회획횎횏횐횑횒횓횔횕횖횗횘횙횚횛횜횝횞횟횠횡횢횣횤횥횦횧효횩횪횫횬횭횮횯횰횱횲횳횴횵횶횷횸횹횺횻횼횽횾횿훀훁훂훃후훅훆훇훈훉훊훋훌훍훎훏훐훑훒훓훔훕훖훗훘훙훚훛훜훝훞훟훠훡훢훣훤훥훦훧훨훩훪훫훬훭훮훯훰훱훲훳훴훵훶훷훸훹훺훻훼훽훾훿"],
      [base |-> 55168, text |-> "힀힁힂힃힄힅힆힇히힉힊힋힌힍힎힏힐힑힒힓힔힕힖힗힘힙힚힛힜힝힞힟힠힡힢힣힤힥힦힧힨힩힪힫힬힭힮힯ힰힱힲힳힴힵힶힷힸힹힺힻힼힽힾힿퟀퟁퟂퟃퟄퟅퟆ퟇퟈퟉퟊ퟋퟌퟍퟎퟏퟐퟑퟒퟓퟔퟕퟖퟗퟘퟙퟚퟛퟜퟝퟞퟟퟠퟡퟢퟣퟤퟥퟦퟧퟨퟩퟪퟫퟬퟭퟮퟯퟰퟱퟲퟳퟴퟵퟶퟷퟸퟹퟺퟻ퟼퟽퟾퟿"],
      [base |-> 57472, text |-> ""],
      [base |-> 57728, text |-> ""],
      [base |-> 57984, text |-> ""],
      [base |-> 58240, text |-> ""],
      [base |-> 58496, text |-> ""],
      [base |-> 58752, text |-> ""],
      [base |-> 59008, text |-> ""],
      [base |-> 59264, text |-> ""],
      [base |-> 59520, text |-> ""],
      [base |-> 59776, text |-> ""],
      [base |-> 60032, text |-> ""],
      [base |-> 60288, text |-> ""],
      [base |-> 60544, text |-> ""],
      [base |-> 60800, text |-> ""],
      [base |-> 61056, text |-> ""],
      [base |-> 61312, text |-> ""],
      [base |-> 61568, text |-> ""],
      [base |-> 61824, text |-> ""],
      [base |-> 62080, text |-> ""],
      [base |-> 62336, text |-> ""],
      [base |-> 62592, text |-> ""],
      [base |-> 62848, text |-> ""],
      [base |-> 63104, text |-> ""],
      [base |-> 63360, text |-> ""],
      [base |-> 63616, text |-> ""],
      [base |-> 63872, text |-> "呂女廬旅濾礪閭驪麗黎力曆歷轢年憐戀撚漣煉璉秊練聯輦蓮連鍊列劣咽烈裂說廉念捻殮簾獵令囹寧嶺怜玲瑩羚聆鈴零靈領例禮醴隸惡了僚寮尿料樂燎療蓼遼龍暈阮劉杻柳流溜琉留硫紐類六戮陸倫崙淪輪律慄栗率隆利吏履易李梨泥理痢罹裏裡里離匿溺吝燐璘藺隣鱗麟林淋臨立笠粒狀炙識什茶刺"],
      [base |-> 64128, text |-> "婢嬨廒廙彩徭惘慎愈憎慠懲戴揄搜摒敖晴朗望杖歹殺流滛滋漢瀞煮瞧爵犯猪瑱甆画瘝瘟益盛直睊着磌窱節类絛練缾者荒華蝹襁覆視調諸請謁諾諭謹變贈輸遲醙鉶陼難靖韛響頋頻鬒龜𢡊𢡄𣏕㮝䀘䀹𥉉𥳐𧻓齃龎﫚﫛﫜﫝﫞﫟﫠﫡﫢﫣﫤﫥﫦﫧﫨﫩﫪﫫﫬﫭﫮﫯﫰﫱﫲﫳﫴﫵﫶﫷﫸﫹﫺﫻﫼﫽﫾﫿"],
      [base |-> 64384, text |-> "ﮀﮁﮂﮃﮄﮅﮆﮇﮈﮉﮊﮋﮌﮍﮎﮏﮐﮑﮒﮓﮔﮕﮖﮗﮘﮙﮚﮛﮜﮝﮞﮟﮠﮡﮢﮣﮤﮥﮦﮧﮨﮩﮪﮫﮬﮭﮮﮯﮰﮱ﮲﮳﮴﮵﮶﮷﮸﮹﮺﮻﮼﮽﮾﮿﯀﯁﯂﯃﯄﯅﯆﯇﯈﯉﯊﯋﯌﯍﯎﯏﯐﯑﯒ﯓﯔﯕﯖﯗﯘﯙﯚﯛﯜﯝﯞﯟﯠﯡﯢﯣﯤﯥﯦﯧﯨﯩﯪﯫﯬﯭﯮﯯﯰﯱﯲﯳﯴﯵﯶﯷﯸﯹﯺﯻﯼﯽﯾﯿ"],
      [base |-> 64640, text |-> "ﲀﲁﲂﲃﲄﲅﲆﲇﲈﲉﲊﲋﲌﲍﲎﲏﲐﲑﲒﲓﲔﲕﲖﲗﲘﲙﲚﲛﲜﲝﲞﲟﲠﲡﲢﲣﲤﲥﲦﲧﲨﲩﲪﲫﲬﲭﲮﲯﲰﲱﲲﲳﲴﲵﲶﲷﲸﲹﲺﲻﲼﲽﲾﲿﳀﳁﳂﳃﳄﳅﳆﳇﳈﳉﳊﳋﳌﳍﳎﳏﳐﳑﳒﳓﳔﳕﳖﳗﳘﳙﳚﳛﳜﳝﳞﳟﳠﳡﳢﳣﳤﳥﳦﳧﳨﳩﳪﳫﳬﳭﳮﳯﳰﳱﳲﳳﳴﳵﳶﳷﳸﳹﳺﳻﳼﳽﳾﳿ"],
      [base |-> 64896, text |-> "ﶀﶁﶂﶃﶄﶅﶆﶇﶈﶉﶊﶋﶌﶍﶎﶏ﶐﶑ﶒﶓﶔﶕﶖﶗﶘﶙﶚﶛﶜﶝﶞﶟﶠﶡﶢﶣﶤﶥﶦﶧﶨﶩﶪﶫﶬﶭﶮﶯﶰﶱﶲﶳﶴﶵﶶﶷﶸﶹﶺﶻﶼﶽﶾﶿﷀﷁﷂﷃﷄﷅﷆﷇ﷈﷉﷊﷋﷌﷍﷎﷏﷐﷑﷒﷓﷔﷕﷖﷗﷘﷙﷚﷛﷜﷝﷞﷟﷠﷡﷢﷣﷤﷥﷦﷧﷨﷩﷪﷫﷬﷭﷮﷯ﷰﷱﷲﷳﷴﷵﷶﷷﷸﷹﷺﷻ﷼﷽﷾﷿"],
      [base |-> 65152, text |-> "ﺀﺁﺂﺃﺄﺅﺆﺇﺈﺉﺊﺋﺌﺍﺎﺏﺐﺑﺒﺓﺔﺕﺖﺗﺘﺙﺚﺛﺜﺝﺞﺟﺠﺡﺢﺣﺤﺥﺦﺧﺨﺩﺪﺫﺬﺭﺮﺯﺰﺱﺲﺳﺴﺵﺶﺷﺸﺹﺺﺻﺼﺽﺾﺿﻀﻁﻂﻃﻄﻅﻆﻇﻈﻉﻊﻋﻌﻍﻎﻏﻐﻑﻒﻓﻔﻕﻖﻗﻘﻙﻚﻛﻜﻝﻞﻟﻠﻡﻢﻣﻤﻥﻦﻧﻨﻩﻪﻫﻬﻭﻮﻯﻰﻱﻲﻳﻴﻵﻶﻷﻸﻹﻺﻻﻼ﻽﻾﻿"],
      [base |-> 65408, text |-> "ﾀﾁﾂﾃﾄﾅﾆﾇﾈﾉﾊﾋﾌﾍﾎﾏﾐﾑﾒﾓﾔﾕﾖﾗﾘﾙﾚﾛﾜﾝﾞﾟﾠﾡﾢﾣﾤﾥﾦﾧﾨﾩﾪﾫﾬﾭﾮﾯﾰﾱﾲﾳﾴﾵﾶﾷﾸﾹﾺﾻﾼﾽﾾ﾿￀￁ￂￃￄￅￆￇ￈￉ￊￋￌￍￎￏ￐￑ￒￓￔￕￖￗ￘￙ￚￛￜ￝￞￟￠￡￢￣￤￥￦￧￨￩￪￫￬￭￮￯￰￱￲￳￴￵￶￷￸￹￺￻￼�￾￿"]>>

\* A character beyond U+FFFF is held as two units, a surrogate pair. The
\* units of the characters of SURROGATES are all the units of pairs a
\* string here can hold: its k-th character is made of the k-th of the
\* first units U+D880..U+D8FF, U+D980..U+D9FF, U+DA80..U+DAFF,
\* U+DB80..U+DBFF and the k-th of the second units U+DC80..U+DCFF,
\* U+DD80..U+DDFF, U+DE80..U+DEFF, U+DF80..U+DFFF.
SURROGATES ==
    "𰂀𰒁𰢂𰲃𱂄𱒅𱢆𱲇𲂈𲒉𲢊𲲋𳂌𳒍𳢎𳲏𴂐𴒑𴢒𴲓𵂔𵒕𵢖𵲗𶂘𶒙𶢚𶲛𷂜𷒝𷢞𷲟𸂠𸒡𸢢𸲣𹂤𹒥𹢦𹲧𺂨𺒩𺢪𺲫𻂬𻒭𻢮𻲯𼂰𼒱𼢲𼲳𽂴𽒵𽢶𽲷𾂸𾒹𾢺𾲻𿂼𿒽𿢾𿲿񀃀񀓁񀣂񀳃񁃄񁓅񁣆񁳇񂃈񂓉񂣊񂳋񃃌񃓍񃣎񃳏񄃐񄓑񄣒񄳓񅃔񅓕񅣖񅳗񆃘񆓙񆣚񆳛񇃜񇓝񇣞񇳟񈃠񈓡񈣢񈳣񉃤񉓥񉣦񉳧񊃨񊓩񊣪񊳫񋃬񋓭񋣮񋳯񌃰񌓱񌣲񌳳񍃴񍓵񍣶񍳷񎃸񎓹񎣺񎳻񏃼񏓽񏣾񏳿񰆀񰖁񰦂񰶃񱆄񱖅񱦆񱶇񲆈񲖉񲦊񲶋񳆌񳖍񳦎񳶏񴆐񴖑񴦒񴶓񵆔񵖕񵦖񵶗񶆘񶖙񶦚񶶛񷆜񷖝񷦞񷶟񸆠񸖡񸦢񸶣񹆤񹖥񹦦񹶧񺆨񺖩񺦪񺶫񻆬񻖭񻦮񻶯񼆰񼖱񼦲񼶳񽆴񽖵񽦶񽶷񾆸񾖹񾦺񾶻񿆼񿖽񿦾񿶿򀇀򀗁򀧂򀷃򁇄򁗅򁧆򁷇򂇈򂗉򂧊򂷋򃇌򃗍򃧎򃷏򄇐򄗑򄧒򄷓򅇔򅗕򅧖򅷗򆇘򆗙򆧚򆷛򇇜򇗝򇧞򇷟򈇠򈗡򈧢򈷣򉇤򉗥򉧦򉷧򊇨򊗩򊧪򊷫򋇬򋗭򋧮򋷯򌇰򌗱򌧲򌷳򍇴򍗵򍧶򍷷򎇸򎗹򎧺򎷻򏇼򏗽򏧾򏷿򰊀򰚁򰪂򰺃򱊄򱚅򱪆򱺇򲊈򲚉򲪊򲺋򳊌򳚍򳪎򳺏򴊐򴚑򴪒򴺓򵊔򵚕򵪖򵺗򶊘򶚙򶪚򶺛򷊜򷚝򷪞򷺟򸊠򸚡򸪢򸺣򹊤򹚥򹪦򹺧򺊨򺚩򺪪򺺫򻊬򻚭򻪮򻺯򼊰򼚱򼪲򼺳򽊴򽚵򽪶򽺷򾊸򾚹򾪺򾺻򿊼򿚽򿪾򿺿󀋀󀛁󀫂󀻃󁋄󁛅󁫆󁻇󂋈󂛉󂫊󂻋󃋌󃛍󃫎󃻏󄋐󄛑󄫒󄻓󅋔󅛕󅫖󅻗󆋘󆛙󆫚󆻛󇋜󇛝󇫞󇻟󈋠󈛡󈫢󈻣󉋤󉛥󉫦󉻧󊋨󊛩󊫪󊻫󋋬󋛭󋫮󋻯󌋰󌛱󌫲󌻳󍋴󍛵󍫶󍻷󎋸󎛹󎫺󎻻󏋼󏛽󏫾󏻿󰎀󰞁󰮂󰾃󱎄󱞅󱮆󱾇󲎈󲞉󲮊󲾋󳎌󳞍󳮎󳾏󴎐󴞑󴮒󴾓󵎔󵞕󵮖󵾗󶎘󶞙󶮚󶾛󷎜󷞝󷮞󷾟󸎠󸞡󸮢󸾣󹎤󹞥󹮦󹾧󺎨󺞩󺮪󺾫󻎬󻞭󻮮󻾯󼎰󼞱󼮲󼾳󽎴󽞵󽮶󽾷󾎸󾞹󾮺󾾻󿎼󿞽󿮾󿾿􀏀􀟁􀯂􀿃􁏄􁟅􁯆􁿇􂏈􂟉􂯊􂿋􃏌􃟍􃯎􃿏􄏐􄟑􄯒􄿓􅏔􅟕􅯖􅿗􆏘􆟙􆯚􆿛􇏜􇟝􇯞􇿟􈏠􈟡􈯢􈿣􉏤􉟥􉯦􉿧􊏨􊟩􊯪􊿫􋏬􋟭􋯮􋿯􌏰􌟱􌯲􌿳􍏴􍟵􍯶􍿷􎏸􎟹􎯺􎿻􏏼􏟽􏯾􏿿"

\* the first and the second units of surrogate pairs
HIGH_SURROGATES == {unitAt(SURROGATES, 2 * k - 1) : k \in 1..(Len(SURROGATES) \div 2)}
LOW_SURROGATES == {unitAt(SURROGATES, 2 * k) : k \in 1..(Len(SURROGATES) \div 2)}

\* the code points of the characters of the first two runs of a table like
\* CODE_POINTS
firstRuns(runs) ==
    LET run(r) == {<<unitAt(r.text, i), r.base + i - 1>> : i \in 1..Len(r.text)}
        table == run(runs[1]) \cup run(runs[2])
    IN  [c \in {x[1] : x \in table} |-> (CHOOSE x \in table : x[1] = c)[2]]

\* ord(c) for the characters of U+0001..U+00FF
LATIN1 == firstRuns(CODE_POINTS)

\* the value of unit c, looked up in latin, then among the units of pairs,
\* then in the runs after the first two; 0 for a unit none of them holds
unitValue(c, latin, pairs, runs) ==
    LET \* the place of unit c in pairs, from 0, by twos
        place == ((CHOOSE i \in 1..Len(pairs) : unitAt(pairs, i) = c) - 1) \div 2
        value(first, k) == first + 256 * (k \div 128) + (k % 128)
        pages == {k \in 3..Len(runs) :
                    \E j \in 1..Len(runs[k].text) : unitAt(runs[k].text, j) = c}
        page == CHOOSE k \in pages : TRUE
        i == CHOOSE i \in 1..Len(runs[page].text) : unitAt(runs[page].text, i) = c
    IN  IF c \in DOMAIN latin THEN latin[c]
        ELSE IF c \in HIGH_SURROGATES THEN value(55424, place)
        ELSE IF c \in LOW_SURROGATES THEN value(56448, place)
        ELSE IF pages # {} THEN runs[page].base + i - 1
        ELSE 0

\* the value of a unit: ord(c) for a character held as one unit, and the
\* UTF-16 value of a unit of a surrogate pair
ord(c) == unitValue(c, LATIN1, SURROGATES, CODE_POINTS)

\* is the unit at position i of t the first unit of a surrogate pair
isPair(t, i) == i < Len(t) /\ unitAt(t, i) \in HIGH_SURROGATES

\* the characters of a text, a character beyond U+FFFF as its two units
chars(t) ==
    {IF isPair(t, i) THEN SubSeq(t, i, i + 1) ELSE unitAt(t, i) :
        i \in {j \in 1..Len(t) : unitAt(t, j) \notin LOW_SURROGATES}}

\* the values of the units of a text
units(t) == [i \in 1..Len(t) |-> ord(unitAt(t, i))]

\* the code points units stand for: a first unit U+D800 + h with the second
\* unit U+DC00 + l after it stands for the character 65536 + 1024 * h + l
RECURSIVE decode(_)
decode(us) ==
    IF Len(us) = 0 THEN <<>>
    ELSE IF Len(us) > 1 /\ us[1] \in 55296..56319
    THEN <<65536 + 1024 * (us[1] - 55296) + (us[2] - 56320)>>
             \o decode(SubSeq(us, 3, Len(us)))
    ELSE <<us[1]>> \o decode(Tail(us))

\* [ord(c) for c in t]: the code points of the characters of a text
codes(t) == decode(units(t))

\* the number of units the first n characters of t are held in
RECURSIVE unitsOf(_, _)
unitsOf(t, n) ==
    IF n = 0 \/ Len(t) = 0 THEN 0
    ELSE LET w == IF isPair(t, 1) THEN 2 ELSE 1
         IN  w + unitsOf(SubSeq(t, w + 1, Len(t)), n - 1)

\* t[:n] and t[n:]
textPrefix(t, n) == SubSeq(t, 1, unitsOf(t, n))
textFrom(t, n) == SubSeq(t, unitsOf(t, n) + 1, Len(t))

\* a < b on sequences of code points: the order of the code points at the
\* first position where the two differ, the shorter first when there is none
codesLess(a, b) ==
    LET n == IF Len(a) < Len(b) THEN Len(a) ELSE Len(b)
        differ == {i \in 1..n : a[i] # b[i]}
        first == CHOOSE i \in differ : \A j \in differ : i <= j
    IN  IF differ = {} THEN Len(a) < Len(b) ELSE a[first] < b[first]

\* t1 < t2 on strings, the order of their code points
textLess(t1, t2) == codesLess(codes(t1), codes(t2))

\* the characters for which str.isupper() holds
UPPER ==
    chars(
    "ABCDEFGHIJKLMNOPQRSTUVWXYZÀÁÂÃÄÅÆÇÈÉÊËÌÍÎÏÐÑÒÓÔÕÖØÙÚÛÜÝÞƁƂƄƆƇƉƊƋƎƏƐƑƓƔƖƗƘƜƝƟƠƢƤƦƧƩƬƮƯƱƲƳƵƷƸƼǄǇǊǍǏǑǓǕǗǙǛǞǠǢǤǦǨǪǬǮǱǴǶǷǸǺǼǾΆΈΉΊΌΎΏΑΒΓΔΕΖΗΘΙΚΛΜΝΞΟΠΡΣΤΥΦΧΨΩΪΫϏϒϓϔϘϚϜϞϠϢϤϦϨϪϬϮϴϷϹϺϽϾϿҀҊҌҎҐҒҔҖҘҚҜҞҠҢҤҦҨҪҬҮҰҲҴҶҸҺҼҾӀӁӃӅӇӉӋӍӐӒӔӖӘӚӜӞӠӢӤӦӨӪӬӮӰӲӴӶӸӺӼӾႠႡႢႣႤႥႦႧႨႩႪႫႬႭႮႯႰႱႲႳႴႵႶႷႸႹႺႻႼႽႾႿჀჁჂჃჄჅჇჍᎠᎡᎢᎣᎤᎥᎦᎧᎨᎩᎪᎫᎬᎭᎮᎯᎰᎱᎲᎳᎴᎵᎶᎷᎸᎹᎺᎻᎼᎽᎾᎿᏀᏁᏂᏃᏄᏅᏆᏇᏈᏉᏊᏋᏌᏍᏎᏏᏐᏑᏒᏓᏔᏕᏖᏗᏘᏙᏚᏛᏜᏝᏞᏟᏠᏡᏢᏣᏤᏥᏦᏧᏨᏩᏪᏫᏬᏭᏮᏯᏰᏱᏲᏳᏴᏵᲐᲑᲒᲓᲔᲕᲖᲗᲘᲙᲚᲛᲜᲝᲞᲟᲠᲡᲢᲣᲤᲥᲦᲧᲨᲩᲪᲫᲬᲭᲮᲯᲰᲱᲲᲳᲴᲵᲶᲷᲸᲹᲺᲽᲾᲿẀẂẄẆẈẊẌẎẐẒẔẞẠẢẤẦẨẪẬẮẰẲẴẶẸẺẼẾỀỂỄỆỈỊỌỎỐỒỔỖỘỚỜỞỠỢỤỦỨỪỬỮỰỲỴỶỸỺỼỾᾸᾹᾺΆῈΈῊΉῘῙῚΊῨῩῪΎῬῸΌῺΏↃⒶⒷⒸⒹⒺⒻⒼⒽⒾⒿⓀⓁⓂⓃⓄⓅⓆⓇⓈⓉⓊⓋⓌⓍⓎⓏⲀⲂⲄⲆⲈⲊⲌⲎⲐⲒⲔⲖⲘⲚⲜⲞⲠⲢⲤⲦⲨⲪⲬⲮⲰⲲⲴⲶⲸⲺⲼⲾⳀⳂⳄⳆⳈⳊⳌⳎⳐⳒⳔⳖⳘⳚⳜⳞⳠⳢⳫⳭⳲꚀꚂꚄꚆꚈꚊꚌꚎꚐꚒꚔꚖꚘꚚꞀꞂꞄꞆꞋꞍꞐꞒꞖꞘꞚꞜꞞꞠꞢꞤꞦꞨꞪꞫꞬꞭꞮꞰꞱꞲꞳꞴꞶꞸꞺꞼꞾꟀꟂꟄꟅꟆꟇꟉꟐꟖꟘꟵ")

\* the characters for which str.islower() holds
LOWER ==
    chars(
    "abcdefghijklmnopqrstuvwxyzªµºßàáâãäåæçèéêëìíîïðñòóôõöøùúûüýþÿƀƃƅƈƌƍƒƕƙƚƛƞơƣƥƨƪƫƭưƴƶƹƺƽƾƿǆǉǌǎǐǒǔǖǘǚǜǝǟǡǣǥǧǩǫǭǯǰǳǵǹǻǽǿʀʁʂʃʄʅʆʇʈʉʊʋʌʍʎʏʐʑʒʓʕʖʗʘʙʚʛʜʝʞʟʠʡʢʣʤʥʦʧʨʩʪʫʬʭʮʯʰʱʲʳʴʵʶʷʸˀˁˠˡˢˣˤΐάέήίΰαβγδεζηθικλμνξοπρςστυφχψωϊϋόύώϐϑϕϖϗϙϛϝϟϡϣϥϧϩϫϭϯϰϱϲϳϵϸϻϼҁҋҍҏґғҕҗҙқҝҟҡңҥҧҩҫҭүұҳҵҷҹһҽҿӂӄӆӈӊӌӎӏӑӓӕӗәӛӝӟӡӣӥӧөӫӭӯӱӳӵӷӹӻӽӿրցւփքօֆևֈაბგდევზთიკლმნოპჟრსტუფქღყშჩცძწჭხჯჰჱჲჳჴჵჶჷჸჹჺჽჾჿᏸᏹᏺᏻᏼᏽᲀᲁᲂᲃᲄᲅᲆᲇᲈᶀᶁᶂᶃᶄᶅᶆᶇᶈᶉᶊᶋᶌᶍᶎᶏᶐᶑᶒᶓᶔᶕᶖᶗᶘᶙᶚᶛᶜᶝᶞᶟᶠᶡᶢᶣᶤᶥᶦᶧᶨᶩᶪᶫᶬᶭᶮᶯᶰᶱᶲᶳᶴᶵᶶᶷᶸᶹᶺᶻᶼᶽᶾᶿẁẃẅẇẉẋẍẏẑẓẕẖẗẘẙẚẛẜẝẟạảấầẩẫậắằẳẵặẹẻẽếềểễệỉịọỏốồổỗộớờởỡợụủứừửữựỳỵỷỹỻỽỿᾀᾁᾂᾃᾄᾅᾆᾇᾐᾑᾒᾓᾔᾕᾖᾗᾠᾡᾢᾣᾤᾥᾦᾧᾰᾱᾲᾳᾴᾶᾷιῂῃῄῆῇῐῑῒΐῖῗῠῡῢΰῤῥῦῧῲῳῴῶῷₐₑₒₓₔₕₖₗₘₙₚₛₜↄⓐⓑⓒⓓⓔⓕⓖⓗⓘⓙⓚⓛⓜⓝⓞⓟⓠⓡⓢⓣⓤⓥⓦⓧⓨⓩⲁⲃⲅⲇⲉⲋⲍⲏⲑⲓⲕⲗⲙⲛⲝⲟⲡⲣⲥⲧⲩⲫⲭⲯⲱⲳⲵⲷⲹⲻⲽⲿⳁⳃⳅⳇⳉⳋⳍⳏⳑⳓⳕⳗⳙⳛⳝⳟⳡⳣⳤⳬⳮⳳꚁꚃꚅꚇꚉꚋꚍꚏꚑꚓꚕꚗꚙꚛꚜꚝꞁꞃꞅꞇꞌꞎꞑꞓꞔꞕꞗꞙꞛꞝꞟꞡꞣꞥꞧꞩꞯꞵꞷꞹꞻꞽꞿꟁꟃꟈꟊꟑꟓꟕꟗꟙꟶꟸꟹꟺꮀꮁꮂꮃꮄꮅꮆꮇꮈꮉꮊꮋꮌꮍꮎꮏꮐꮑꮒꮓꮔꮕꮖꮗꮘꮙꮚꮛꮜꮝꮞꮟꮠꮡꮢꮣꮤꮥꮦꮧꮨꮩꮪꮫꮬꮭꮮꮯꮰꮱꮲꮳꮴꮵꮶꮷꮸꮹꮺꮻꮼꮽꮾꮿ")

\* c.isupper() and c.islower() for a text of one character or none
isupper(c) == c \in UPPER
islower(c) == c \in LOWER

\* the characters str.casefold() changes, and for each the code points of
\* what it makes of it
CASEFOLD ==
    LET from ==
    "ABCDEFGHIJKLMNOPQRSTUVWXYZµÀÁÂÃÄÅÆÇÈÉÊËÌÍÎÏÐÑÒÓÔÕÖØÙÚÛÜÝÞßƁƂƄƆƇƉƊƋƎƏƐƑƓƔƖƗƘƜƝƟƠƢƤƦƧƩƬƮƯƱƲƳƵƷƸƼǄǅǇǈǊǋǍǏǑǓǕǗǙǛǞǠǢǤǦǨǪǬǮǰǱǲǴǶǷǸǺǼǾΆΈΉΊΌΎΏΐΑΒΓΔΕΖΗΘΙΚΛΜΝΞΟΠΡΣΤΥΦΧΨΩΪΫΰςϏϐϑϕϖϘϚϜϞϠϢϤϦϨϪϬϮϰϱϴϵϷϹϺϽϾϿҀҊҌҎҐҒҔҖҘҚҜҞҠҢҤҦҨҪҬҮҰҲҴҶҸҺҼҾӀӁӃӅӇӉӋӍӐӒӔӖӘӚӜӞӠӢӤӦӨӪӬӮӰӲӴӶӸӺӼӾևႠႡႢႣႤႥႦႧႨႩႪႫႬႭႮႯႰႱႲႳႴႵႶႷႸႹႺႻႼႽႾႿჀჁჂჃჄჅჇჍᏸᏹᏺᏻᏼᏽᲀᲁᲂᲃᲄᲅᲆᲇᲈᲐᲑᲒᲓᲔᲕᲖᲗᲘᲙᲚᲛᲜᲝᲞᲟᲠᲡᲢᲣᲤᲥᲦᲧᲨᲩᲪᲫᲬᲭᲮᲯᲰᲱᲲᲳᲴᲵᲶᲷᲸᲹᲺᲽᲾᲿẀẂẄẆẈẊẌẎẐẒẔẖẗẘẙẚẛẞẠẢẤẦẨẪẬẮẰẲẴẶẸẺẼẾỀỂỄỆỈỊỌỎỐỒỔỖỘỚỜỞỠỢỤỦỨỪỬỮỰỲỴỶỸỺỼỾᾀᾁᾂᾃᾄᾅᾆᾇᾈᾉᾊᾋᾌᾍᾎᾏᾐᾑᾒᾓᾔᾕᾖᾗᾘᾙᾚᾛᾜᾝᾞᾟᾠᾡᾢᾣᾤᾥᾦᾧᾨᾩᾪᾫᾬᾭᾮᾯᾲᾳᾴᾶᾷᾸᾹᾺΆᾼιῂῃῄῆῇῈΈῊΉῌῒΐῖῗῘῙῚΊῢΰῤῦῧῨῩῪΎῬῲῳῴῶῷῸΌῺΏῼↃⒶⒷⒸⒹⒺⒻⒼⒽⒾⒿⓀⓁⓂⓃⓄⓅⓆⓇⓈⓉⓊⓋⓌⓍⓎⓏⲀⲂⲄⲆⲈⲊⲌⲎⲐⲒⲔⲖⲘⲚⲜⲞⲠⲢⲤⲦⲨⲪⲬⲮⲰⲲⲴⲶⲸⲺⲼⲾⳀⳂⳄⳆⳈⳊⳌⳎⳐⳒⳔⳖⳘⳚⳜⳞⳠⳢⳫⳭⳲꚀꚂꚄꚆꚈꚊꚌꚎꚐꚒꚔꚖꚘꚚꞀꞂꞄꞆꞋꞍꞐꞒꞖꞘꞚꞜꞞꞠꞢꞤꞦꞨꞪꞫꞬꞭꞮꞰꞱꞲꞳꞴꞶꞸꞺꞼꞾꟀꟂꟄꟅꟆꟇꟉꟐꟖꟘꟵꮀꮁꮂꮃꮄꮅꮆꮇꮈꮉꮊꮋꮌꮍꮎꮏꮐꮑꮒꮓꮔꮕꮖꮗꮘꮙꮚꮛꮜꮝꮞꮟꮠꮡꮢꮣꮤꮥꮦꮧꮨꮩꮪꮫꮬꮭꮮꮯꮰꮱꮲꮳꮴꮵꮶꮷꮸꮹꮺꮻꮼꮽꮾꮿ"
        to ==
    <<<<97>>, <<98>>, <<99>>, <<100>>, <<101>>, <<102>>, <<103>>, <<104>>,
      <<105>>, <<106>>, <<107>>, <<108>>, <<109>>, <<110>>, <<111>>, <<112>>,
      <<113>>, <<114>>, <<115>>, <<116>>, <<117>>, <<118>>, <<119>>, <<120>>,
      <<121>>, <<122>>, <<956>>, <<224>>, <<225>>, <<226>>, <<227>>, <<228>>,
      <<229>>, <<230>>, <<231>>, <<232>>, <<233>>, <<234>>, <<235>>, <<236>>,
      <<237>>, <<238>>, <<239>>, <<240>>, <<241>>, <<242>>, <<243>>, <<244>>,
      <<245>>, <<246>>, <<248>>, <<249>>, <<250>>, <<251>>, <<252>>, <<253>>,
      <<254>>, <<115, 115>>, <<595>>, <<387>>, <<389>>, <<596>>, <<392>>,
      <<598>>, <<599>>, <<396>>, <<477>>, <<601>>, <<603>>, <<402>>, <<608>>,
      <<611>>, <<617>>, <<616>>, <<409>>, <<623>>, <<626>>, <<629>>, <<417>>,
      <<419>>, <<421>>, <<640>>, <<424>>, <<643>>, <<429>>, <<648>>, <<432>>,
      <<650>>, <<651>>, <<436>>, <<438>>, <<658>>, <<441>>, <<445>>, <<454>>,
      <<454>>, <<457>>, <<457>>, <<460>>, <<460>>, <<462>>, <<464>>, <<466>>,
      <<468>>, <<470>>, <<472>>, <<474>>, <<476>>, <<479>>, <<481>>, <<483>>,
      <<485>>, <<487>>, <<489>>, <<491>>, <<493>>, <<495>>, <<106, 780>>,
      <<499>>, <<499>>, <<501>>, <<405>>, <<447>>, <<505>>, <<507>>, <<509>>,
      <<511>>, <<940>>, <<941>>, <<942>>, <<943>>, <<972>>, <<973>>, <<974>>,
      <<953, 776, 769>>, <<945>>, <<946>>, <<947>>, <<948>>, <<949>>, <<950>>,
      <<951>>, <<952>>, <<953>>, <<954>>, <<955>>, <<956>>, <<957>>, <<958>>,
      <<959>>, <<960>>, <<961>>, <<963>>, <<964>>, <<965>>, <<966>>, <<967>>,
      <<968>>, <<969>>, <<970>>, <<971>>, <<965, 776, 769>>, <<963>>, <<983>>,
      <<946>>, <<952>>, <<966>>, <<960>>, <<985>>, <<987>>, <<989>>, <<991>>,
      <<993>>, <<995>>, <<997>>, <<999>>, <<1001>>, <<1003>>, <<1005>>,
      <<1007>>, <<954>>, <<961>>, <<952>>, <<949>>, <<1016>>, <<1010>>,
      <<1019>>, <<891>>, <<892>>, <<893>>, <<1153>>, <<1163>>, <<1165>>,
      <<1167>>, <<1169>>, <<1171>>, <<1173>>, <<1175>>, <<1177>>, <<1179>>,
      <<1181>>, <<1183>>, <<1185>>, <<1187>>, <<1189>>, <<1191>>, <<1193>>,
      <<1195>>, <<1197>>, <<1199>>, <<1201>>, <<1203>>, <<1205>>, <<1207>>,
      <<1209>>, <<1211>>, <<1213>>, <<1215>>, <<1231>>, <<1218>>, <<1220>>,
      <<1222>>, <<1224>>, <<1226>>, <<1228>>, <<1230>>, <<1233>>, <<1235>>,
      <<1237>>, <<1239>>, <<1241>>, <<1243>>, <<1245>>, <<1247>>, <<1249>>,
      <<1251>>, <<1253>>, <<1255>>, <<1257>>, <<1259>>, <<1261>>, <<1263>>,
      <<1265>>, <<1267>>, <<1269>>, <<1271>>, <<1273>>, <<1275>>, <<1277>>,
      <<1279>>, <<1381, 1410>>, <<11520>>, <<11521>>, <<11522>>, <<11523>>,
      <<11524>>, <<11525>>, <<11526>>, <<11527>>, <<11528>>, <<11529>>,
      <<11530>>, <<11531>>, <<11532>>, <<11533>>, <<11534>>, <<11535>>,
      <<11536>>, <<11537>>, <<11538>>, <<11539>>, <<11540>>, <<11541>>,
      <<11542>>, <<11543>>, <<11544>>, <<11545>>, <<11546>>, <<11547>>,
      <<11548>>, <<11549>>, <<11550>>, <<11551>>, <<11552>>, <<11553>>,
      <<11554>>, <<11555>>, <<11556>>, <<11557>>, <<11559>>, <<11565>>,
      <<5104>>, <<5105>>, <<5106>>, <<5107>>, <<5108>>, <<5109>>, <<1074>>,
      <<1076>>, <<1086>>, <<1089>>, <<1090>>, <<1090>>, <<1098>>, <<1123>>,
      <<42571>>, <<4304>>, <<4305>>, <<4306>>, <<4307>>, <<4308>>, <<4309>>,
      <<4310>>, <<4311>>, <<4312>>, <<4313>>, <<4314>>, <<4315>>, <<4316>>,
      <<4317>>, <<4318>>, <<4319>>, <<4320>>, <<4321>>, <<4322>>, <<4323>>,
      <<4324>>, <<4325>>, <<4326>>, <<4327>>, <<4328>>, <<4329>>, <<4330>>,
      <<4331>>, <<4332>>, <<4333>>, <<4334>>, <<4335>>, <<4336>>, <<4337>>,
      <<4338>>, <<4339>>, <<4340>>, <<4341>>, <<4342>>, <<4343>>, <<4344>>,
      <<4345>>, <<4346>>, <<4349>>, <<4350>>, <<4351>>, <<7809>>, <<7811>>,
      <<7813>>, <<7815>>, <<7817>>, <<7819>>, <<7821>>, <<7823>>, <<7825>>,
      <<7827>>, <<7829>>, <<104, 817>>, <<116, 776>>, <<119, 778>>,
      <<121, 778>>, <<97, 702>>, <<7777>>, <<115, 115>>, <<7841>>, <<7843>>,
      <<7845>>, <<7847>>, <<7849>>, <<7851>>, <<7853>>, <<7855>>, <<7857>>,
      <<7859>>, <<7861>>, <<7863>>, <<7865>>, <<7867>>, <<7869>>, <<7871>>,
      <<7873>>, <<7875>>, <<7877>>, <<7879>>, <<7881>>, <<7883>>, <<7885>>,
      <<7887>>, <<7889>>, <<7891>>, <<7893>>, <<7895>>, <<7897>>, <<7899>>,
      <<7901>>, <<7903>>, <<7905>>, <<7907>>, <<7909>>, <<7911>>, <<7913>>,
      <<7915>>, <<7917>>, <<7919>>, <<7921>>, <<7923>>, <<7925>>, <<7927>>,
      <<7929>>, <<7931>>, <<7933>>, <<7935>>, <<7936, 953>>, <<7937, 953>>,
      <<7938, 953>>, <<7939, 953>>, <<7940, 953>>, <<7941, 953>>,
      <<7942, 953>>, <<7943, 953>>, <<7936, 953>>, <<7937, 953>>,
      <<7938, 953>>, <<7939, 953>>, <<7940, 953>>, <<7941, 953>>,
      <<7942, 953>>, <<7943, 953>>, <<7968, 953>>, <<7969, 953>>,
      <<7970, 953>>, <<7971, 953>>, <<7972, 953>>, <<7973, 953>>,
      <<7974, 953>>, <<7975, 953>>, <<7968, 953>>, <<7969, 953>>,
      <<7970, 953>>, <<7971, 953>>, <<7972, 953>>, <<7973, 953>>,
      <<7974, 953>>, <<7975, 953>>, <<8032, 953>>, <<8033, 953>>,
      <<8034, 953>>, <<8035, 953>>, <<8036, 953>>, <<8037, 953>>,
      <<8038, 953>>, <<8039, 953>>, <<8032, 953>>, <<8033, 953>>,
      <<8034, 953>>, <<8035, 953>>, <<8036, 953>>, <<8037, 953>>,
      <<8038, 953>>, <<8039, 953>>, <<8048, 953>>, <<945, 953>>, <<940, 953>>,
      <<945, 834>>, <<945, 834, 953>>, <<8112>>, <<8113>>, <<8048>>, <<8049>>,
      <<945, 953>>, <<953>>, <<8052, 953>>, <<951, 953>>, <<942, 953>>,
      <<951, 834>>, <<951, 834, 953>>, <<8050>>, <<8051>>, <<8052>>, <<8053>>,
      <<951, 953>>, <<953, 776, 768>>, <<953, 776, 769>>, <<953, 834>>,
      <<953, 776, 834>>, <<8144>>, <<8145>>, <<8054>>, <<8055>>,
      <<965, 776, 768>>, <<965, 776, 769>>, <<961, 787>>, <<965, 834>>,
      <<965, 776, 834>>, <<8160>>, <<8161>>, <<8058>>, <<8059>>, <<8165>>,
      <<8060, 953>>, <<969, 953>>, <<974, 953>>, <<969, 834>>,
      <<969, 834, 953>>, <<8056>>, <<8057>>, <<8060>>, <<8061>>, <<969, 953>>,
      <<8580>>, <<9424>>, <<9425>>, <<9426>>, <<9427>>, <<9428>>, <<9429>>,
      <<9430>>, <<9431>>, <<9432>>, <<9433>>, <<9434>>, <<9435>>, <<9436>>,
      <<9437>>, <<9438>>, <<9439>>, <<9440>>, <<9441>>, <<9442>>, <<9443>>,
      <<9444>>, <<9445>>, <<9446>>, <<9447>>, <<9448>>, <<9449>>, <<11393>>,
      <<11395>>, <<11397>>, <<11399>>, <<11401>>, <<11403>>, <<11405>>,
      <<11407>>, <<11409>>, <<11411>>, <<11413>>, <<11415>>, <<11417>>,
      <<11419>>, <<11421>>, <<11423>>, <<11425>>, <<11427>>, <<11429>>,
      <<11431>>, <<11433>>, <<11435>>, <<11437>>, <<11439>>, <<11441>>,
      <<11443>>, <<11445>>, <<11447>>, <<11449>>, <<11451>>, <<11453>>,
      <<11455>>, <<11457>>, <<11459>>, <<11461>>, <<11463>>, <<11465>>,
      <<11467>>, <<11469>>, <<11471>>, <<11473>>, <<11475>>, <<11477>>,
      <<11479>>, <<11481>>, <<11483>>, <<11485>>, <<11487>>, <<11489>>,
      <<11491>>, <<11500>>, <<11502>>, <<11507>>, <<42625>>, <<42627>>,
      <<42629>>, <<42631>>, <<42633>>, <<42635>>, <<42637>>, <<42639>>,
      <<42641>>, <<42643>>, <<42645>>, <<42647>>, <<42649>>, <<42651>>,
      <<42881>>, <<42883>>, <<42885>>, <<42887>>, <<42892>>, <<613>>,
      <<42897>>, <<42899>>, <<42903>>, <<42905>>, <<42907>>, <<42909>>,
      <<42911>>, <<42913>>, <<42915>>, <<42917>>, <<42919>>, <<42921>>,
      <<614>>, <<604>>, <<609>>, <<620>>, <<618>>, <<670>>, <<647>>, <<669>>,
      <<43859>>, <<42933>>, <<42935>>, <<42937>>, <<42939>>, <<42941>>,
      <<42943>>, <<42945>>, <<42947>>, <<42900>>, <<642>>, <<7566>>, <<42952>>,
      <<42954>>, <<42961>>, <<42967>>, <<42969>>, <<42998>>, <<5040>>,
      <<5041>>, <<5042>>, <<5043>>, <<5044>>, <<5045>>, <<5046>>, <<5047>>,
      <<5048>>, <<5049>>, <<5050>>, <<5051>>, <<5052>>, <<5053>>, <<5054>>,
      <<5055>>, <<5056>>, <<5057>>, <<5058>>, <<5059>>, <<5060>>, <<5061>>,
      <<5062>>, <<5063>>, <<5064>>, <<5065>>, <<5066>>, <<5067>>, <<5068>>,
      <<5069>>, <<5070>>, <<5071>>, <<5072>>, <<5073>>, <<5074>>, <<5075>>,
      <<5076>>, <<5077>>, <<5078>>, <<5079>>, <<5080>>, <<5081>>, <<5082>>,
      <<5083>>, <<5084>>, <<5085>>, <<5086>>, <<5087>>, <<5088>>, <<5089>>,
      <<5090>>, <<5091>>, <<5092>>, <<5093>>, <<5094>>, <<5095>>, <<5096>>,
      <<5097>>, <<5098>>, <<5099>>, <<5100>>, <<5101>>, <<5102>>, <<5103>>>>
    IN  [c \in chars(from) |-> to[CHOOSE i \in 1..Len(from) : unitAt(from, i) = c]]

\* [ord(c) for c in t.casefold()]
RECURSIVE casefold(_)
casefold(t) ==
    IF Len(t) = 0 THEN <<>>
    ELSE IF unitAt(t, 1) \in DOMAIN CASEFOLD
    THEN CASEFOLD[unitAt(t, 1)] \o casefold(SubSeq(t, 2, Len(t)))
    ELSE codes(textPrefix(t, 1)) \o casefold(textFrom(t, 1))

(***************************************************************************)
(* Terms and vocabulary                                                    *)
(***************************************************************************)
RDF == <<"http", ":", "//www.w3.org/1999/02/22-rdf-syntax-ns#">>
RDFS == <<"http", ":", "//www.w3.org/2000/01/rdf-schema#">>
OWL == <<"http", ":", "//www.w3.org/2002/07/owl#">>
DCTERMS == <<"http", ":", "//purl.org/dc/terms/">>
SKOS == <<"http", ":", "//www.w3.org/2004/02/skos/core#">>
BFFI_NS == <<"http", ":", "//urn.fi/URN:NBN:fi:schema:bffi:">>
BFFIMETA_NS == <<"http", ":", "//urn.fi/URN:NBN:fi:schema:bffi-meta:">>
BF_NS == <<"http", ":", "//id.loc.gov/ontologies/bibframe/">>

\* the IRI ns + local
URIRef(ns, local) == <<"iri">> \o ns \o <<local>>
Literal(value, lang) == <<"lit", lang>> \o value
\* the n-th blank node the Turtle parser makes up: its identifier is "f",
\* a random UUID, "b" and a counter, and no text a cell holds (the empty
\* piece, which no cell has, stands for the UUID)
BNode(n) == <<"bnode", "f", "", "b", ToString(n)>>
ERROR(kind) == <<"error", kind>>

isIRI(t) == Head(t) = "iri"
isBNode(t) == Head(t) = "bnode"
isLiteral(t) == Head(t) = "lit"
isError(t) == Head(t) = "error"

\* str(term): the text of an IRI, a blank node identifier or a literal
strOf(t) == IF isLiteral(t) THEN SubSeq(t, 3, Len(t)) ELSE Tail(t)

RDF_type == URIRef(RDF, "type")
RDF_first == URIRef(RDF, "first")
RDF_rest == URIRef(RDF, "rest")
RDF_nil == URIRef(RDF, "nil")
RDFS_label == URIRef(RDFS, "label")
RDFS_domain == URIRef(RDFS, "domain")
RDFS_range == URIRef(RDFS, "range")
RDFS_Resource == URIRef(RDFS, "Resource")
RDFS_Literal == URIRef(RDFS, "Literal")
RDFS_subClassOf == URIRef(RDFS, "subClassOf")
RDFS_subPropertyOf == URIRef(RDFS, "subPropertyOf")
OWL_Class == URIRef(OWL, "Class")
OWL_ObjectProperty == URIRef(OWL, "ObjectProperty")
OWL_DatatypeProperty == URIRef(OWL, "DatatypeProperty")
OWL_DeprecatedClass == URIRef(OWL, "DeprecatedClass")
OWL_DeprecatedProperty == URIRef(OWL, "DeprecatedProperty")
OWL_unionOf == URIRef(OWL, "unionOf")
OWL_inverseOf == URIRef(OWL, "inverseOf")
OWL_disjointWith == URIRef(OWL, "disjointWith")
OWL_deprecated == URIRef(OWL, "deprecated")
DCTERMS_modified == URIRef(DCTERMS, "modified")
DCTERMS_isReplacedBy == URIRef(DCTERMS, "isReplacedBy")
BFFIMETA_relatedValueVocabulary == URIRef(BFFIMETA_NS, "relatedValueVocabulary")
\* Literal(True): "true"^^xsd:boolean
TRUE_LITERAL == <<"lit", "xsd:boolean", "true">>

\* the namespace table read from the prefixes file (self.nsm)
nsm == [bffi |-> BFFI_NS, owl |-> OWL, rdfs |-> RDFS, rdf |-> RDF,
        dct |-> DCTERMS, bf |-> BF_NS] @@ ("bffi-meta" :> BFFIMETA_NS)

\* is the text before the first ":" a bound prefix
boundPrefix(p) == Len(p) = 1 /\ p[1] \in DOMAIN nsm

(***************************************************************************)
(* graph.add / graph.remove / pattern queries                              *)
(***************************************************************************)
\* graph.add(t)
add(g, t) == g \cup {t}

\* graph.remove((s, p, None))
removeSP(g, s, p) == {t \in g : ~(t[1] = s /\ t[2] = p)}

\* graph.objects(s, p)
objects(g, s, p) == {t[3] : t \in {u \in g : u[1] = s /\ u[2] = p}}

\* graph.predicate_objects(subject=s)
outgoing(g, s) == {t \in g : t[1] = s}

(***************************************************************************)
(* Term resolution                                                         *)
(***************************************************************************)
\* rdflib.util.from_n3(s, nsm=self.nsm), for texts that are not N3 literals
\* (quoted texts, "true", "false", numbers), "<...>", "{...}" or "_:..."
\* forms: a text with a ":" is split on the first
\* ":" and looked up in the namespace table (KeyError when the prefix is not
\* bound), a text without one becomes a blank node named by the text, and
\* the empty text gives None, which graph.add refuses.
from_n3(s) ==
    IF s = <<>> THEN ERROR("not an rdflib term")
    ELSE IF contains(s, ":")
    THEN (IF boundPrefix(split1(s, ":")[1])
          THEN <<"iri">> \o nsm[split1(s, ":")[1][1]] \o split1(s, ":")[2]
          ELSE ERROR("undefined prefix"))
    ELSE <<"bnode">> \o s

\* NamespaceManager.expand_curie(curie)
expand_curie(curie) ==
    IF Len(split1(curie, ":")) # 2 THEN ERROR("malformed curie")
    ELSE IF boundPrefix(split1(curie, ":")[1])
    THEN <<"iri">> \o nsm[split1(curie, ":")[1][1]] \o split1(curie, ":")[2]
    ELSE ERROR("undefined prefix")

\* URIRef(text) of an absolute IRI given verbatim
absoluteIRI(text) == <<"iri">> \o text

\* expand_curie(item) if not item.startswith("http") else item
expandItem(item) ==
    IF startswithHttp(item) THEN absoluteIRI(item) ELSE expand_curie(item)

(***************************************************************************)
(* processComplexCol                                                       *)
(***************************************************************************)
\* [item for _ in pieces if (item := _.strip(" {}"))]
RECURSIVE stripItems(_)
stripItems(pieces) ==
    IF pieces = <<>> THEN <<>>
    ELSE (IF strip(Head(pieces), {" ", "{", "}"}) # <<>>
          THEN <<strip(Head(pieces), {" ", "{", "}"})>>
          ELSE <<>>) \o stripItems(Tail(pieces))

\* o[1:-1].strip()
unionInterior(o) == strip(SubSeq(o, 2, Len(o) - 1), WHITESPACE)

\* the items stripped but with the empty ones kept
union_items_keepEmpty(o) ==
    [i \in 1..Len(split(unionInterior(o), ",")) |->
        strip(split(unionInterior(o), ",")[i], {" ", "{", "}"})]

\* strip and drop empty values
union_items(o) == stripItems(split(unionInterior(o), ","))

expanded_items(o) == [i \in 1..Len(union_items(o)) |-> expandItem(union_items(o)[i])]

\* a union whose list holds the members in reverse order
unionTriples_reversed(nb, s, p, members) ==
    {<<s, p, BNode(nb + 1)>>,
     <<BNode(nb + 1), RDF_type, OWL_Class>>,
     <<BNode(nb + 1), OWL_unionOf, BNode(nb + 2)>>}
    \cup {<<BNode(nb + 1 + k), RDF_first, members[Len(members) + 1 - k]>> :
            k \in 1..Len(members)}
    \cup {<<BNode(nb + 1 + k), RDF_rest,
            IF k = Len(members) THEN RDF_nil ELSE BNode(nb + 2 + k)>> :
              k \in 1..Len(members)}

\* The triples the Turtle parser adds for
\*   <s> <p> [ a owl:Class ; owl:unionOf ( <m1> ... <mn> ) ] .
\* with fresh blank nodes: BNode(nb+1) for the union node and BNode(nb+1+k)
\* for the k-th cell of the RDF list.
unionTriples(nb, s, p, members) ==
    {<<s, p, BNode(nb + 1)>>,
     <<BNode(nb + 1), RDF_type, OWL_Class>>,
     <<BNode(nb + 1), OWL_unionOf, BNode(nb + 2)>>}
    \cup {<<BNode(nb + 1 + k), RDF_first, members[k]>> : k \in 1..Len(members)}
    \cup {<<BNode(nb + 1 + k), RDF_rest,
            IF k = Len(members) THEN RDF_nil ELSE BNode(nb + 2 + k)>> :
              k \in 1..Len(members)}

\* the first error raised while expanding the items, in list order
firstError(terms) ==
    terms[CHOOSE i \in 1..Len(terms) :
              isError(terms[i]) /\ \A j \in 1..(i - 1) : ~isError(terms[j])][2]

\* processComplexCol(s, p, o) on graph g with nb blank nodes made so far:
\* the resulting graph and blank-node count, or the error raised (err # "").
processComplexCol(g, nb, s, p, o) ==
    IF startswith(o, <<"[">>)
    THEN IF ~endswith(o, <<"]">>)
         THEN [err |-> "unterminated union", graph |-> g, nb |-> nb]
         ELSE IF contains(unionInterior(o), "[") \/ contains(unionInterior(o), "]")
         THEN [err |-> "nested brackets", graph |-> g, nb |-> nb]
         ELSE IF Len(union_items(o)) < 2
         THEN [err |-> "less than two elements", graph |-> g, nb |-> nb]
         ELSE IF \E i \in 1..Len(union_items(o)) : isError(expanded_items(o)[i])
         THEN [err |-> firstError(expanded_items(o)), graph |-> g, nb |-> nb]
         ELSE [err |-> "",
               graph |-> g \cup unionTriples(nb, s, p, expanded_items(o)),
               nb |-> nb + 1 + Len(union_items(o))]
    ELSE IF isError(from_n3(o))
         THEN [err |-> from_n3(o)[2], graph |-> g, nb |-> nb]
         ELSE [err |-> "", graph |-> add(g, <<s, p, from_n3(o)>>), nb |-> nb]

(***************************************************************************)
(* Rows of the CSV file                                                    *)
(***************************************************************************)
\* treat these CSV cell values as empty/missing
EMPTY_COL_VALS == {<<>>, <<"#N/A">>, <<"N/A">>, <<"?">>}

Columns == {"id", "status", "julkaisuversio", "label_en", "label_fi", "domain",
            "range", "rvv", "type", "map_bf", "bibframeURI", "map_rda",
            "rdaURI", "subClassOf", "subPropertyOf", "inverseOf",
            "disjointWith", "replacedBy"}

\* dict((x, "") for x in csvreader.fieldnames)
EmptyRow == [c \in Columns |-> <<>>]

\* strip all column values and map special values to empty strings
normalize(raw) ==
    [c \in Columns |->
        IF strip(raw[c], WHITESPACE) \in EMPTY_COL_VALS
        THEN <<>>
        ELSE strip(raw[c], WHITESPACE)]

\* an enumeration that also lets draft rows through
ACCEPTED_STATUS_withDraft ==
    {<<"published">>, <<"planned">>, <<"deprecated">>, <<"draft">>}

ACCEPTED_STATUS == {<<"published">>, <<"planned">>, <<"deprecated">>}

\* BFFI[id[5:]]
bffi_id(r) == <<"iri">> \o BFFI_NS \o SubSeq(r.id, 3, Len(r.id))

\* [_.strip() for _ in cell.split(sep) if cell]
RECURSIVE stripEach(_)
stripEach(pieces) ==
    IF pieces = <<>> THEN <<>>
    ELSE <<strip(Head(pieces), WHITESPACE)>> \o stripEach(Tail(pieces))

listItems(cell, sep) == IF cell = <<>> THEN <<>> ELSE stripEach(split(cell, sep))

\* a loop over the items that takes back an item the subject already has:
\* a repeated row retracts what the row before it asserted
RECURSIVE addItems_retracts(_, _, _, _)
addItems_retracts(g, s, p, items) ==
    IF items = <<>> THEN [err |-> "", graph |-> g]
    ELSE IF isError(from_n3(Head(items)))
    THEN [err |-> from_n3(Head(items))[2], graph |-> g]
    ELSE IF <<s, p, from_n3(Head(items))>> \in g
    THEN addItems_retracts(g \ {<<s, p, from_n3(Head(items))>>}, s, p, Tail(items))
    ELSE addItems_retracts(add(g, <<s, p, from_n3(Head(items))>>), s, p, Tail(items))

\* for item in items: graph.add((s, p, from_n3(item))), stopping at the first
\* item that raises
RECURSIVE addItems(_, _, _, _)
addItems(g, s, p, items) ==
    IF items = <<>> THEN [err |-> "", graph |-> g]
    ELSE IF isError(from_n3(Head(items)))
    THEN [err |-> from_n3(Head(items))[2], graph |-> g]
    ELSE addItems(add(g, <<s, p, from_n3(Head(items))>>), s, p, Tail(items))

(***************************************************************************)
(* convertCSV: the columns of one row, in the order the code handles them. *)
(* Each operator gives the graph (and blank-node count) after its columns, *)
(* or the error raised (err # "").                                         *)
(***************************************************************************)
\* the decimal digits of every script, the digit d of a script at
\* position d + 1 of the script's text
DIGITS ==
    <<"0123456789", "۰۱۲۳۴۵۶۷۸۹", "߀߁߂߃߄߅߆߇߈߉", "০১২৩৪৫৬৭৮৯", "૦૧૨૩૪૫૬૭૮૯",
      "௦௧௨௩௪௫௬௭௮௯", "೦೧೨೩೪೫೬೭೮೯", "෦෧෨෩෪෫෬෭෮෯", "໐໑໒໓໔໕໖໗໘໙", "႐႑႒႓႔႕႖႗႘႙",
      "០១២៣៤៥៦៧៨៩", "᧐᧑᧒᧓᧔᧕᧖᧗᧘᧙", "᪀᪁᪂᪃᪄᪅᪆᪇᪈᪉", "᪐᪑᪒᪓᪔᪕᪖᪗᪘᪙", "᮰᮱᮲᮳᮴᮵᮶᮷᮸᮹",
      "꣐꣑꣒꣓꣔꣕꣖꣗꣘꣙", "꧐꧑꧒꧓꧔꧕꧖꧗꧘꧙", "꧰꧱꧲꧳꧴꧵꧶꧷꧸꧹", "꯰꯱꯲꯳꯴꯵꯶꯷꯸꯹">>

\* the value of a decimal digit
DECIMAL ==
    [c \in UNION {chars(d) : d \in Range(DIGITS)} |->
        CHOOSE v \in 0..9 : \E d \in Range(DIGITS) : unitAt(d, v + 1) = c]

\* the white space int() drops around a text: the characters of
\* str.isspace() but for U+001C..U+001F
INT_WHITESPACE == {c \in WHITESPACE : ord(c) \notin 28..31}

\* the text int() reads: white space around it is dropped, then a sign
unsigned(piece) ==
    LET t == textOf(strip(piece, INT_WHITESPACE))
    IN  IF Len(t) > 0 /\ unitAt(t, 1) \in {"+", "-"} THEN SubSeq(t, 2, Len(t)) ELSE t

\* the most digits int() converts (sys.get_int_max_str_digits())
MAX_STR_DIGITS == 4300

\* int(piece) succeeds: the text is made of decimal digits, with single
\* underscores between digits allowed, and has at most MAX_STR_DIGITS
\* digits (leading zeros counted, underscores and the sign not)
isNumeral(piece) ==
    LET t == unsigned(piece)
    IN  /\ Len(t) > 0
        /\ \A i \in 1..Len(t) :
              \/ unitAt(t, i) \in DOMAIN DECIMAL
              \/ /\ unitAt(t, i) = "_"
                 /\ 1 < i /\ i < Len(t)
                 /\ unitAt(t, i - 1) \in DOMAIN DECIMAL
                 /\ unitAt(t, i + 1) \in DOMAIN DECIMAL
        /\ Cardinality({i \in 1..Len(t) : unitAt(t, i) # "_"}) <= MAX_STR_DIGITS

\* the digits of a text of digits and underscores as ASCII digits, the
\* underscores dropped
RECURSIVE asciiDigits(_)
asciiDigits(t) ==
    IF Len(t) = 0 THEN ""
    ELSE IF Len(t) = 1
    THEN IF t = "_" THEN "" ELSE unitAt("0123456789", DECIMAL[t] + 1)
    ELSE asciiDigits(SubSeq(t, 1, Len(t) \div 2))
            \o asciiDigits(SubSeq(t, Len(t) \div 2 + 1, Len(t)))

\* the number a text of digits and underscores denotes. A Python integer
\* has no bound: it is held as the decimal numeral str() gives for it, the
\* digits without leading zeros
natOf(t) ==
    LET d == asciiDigits(t)
        nonzero == {i \in 1..Len(d) : unitAt(d, i) # "0"}
    IN  IF nonzero = {} THEN "0"
        ELSE SubSeq(d, CHOOSE i \in nonzero : \A j \in nonzero : i <= j, Len(d))

\* int(piece), as the numeral str(int(piece)): "-" before the digits of a
\* negative number
int(piece) ==
    LET t == textOf(strip(piece, INT_WHITESPACE))
        n == natOf(unsigned(piece))
    IN  IF Len(t) > 0 /\ unitAt(t, 1) = "-" /\ n # "0" THEN "-" \o n ELSE n

\* a < b for two numerals without sign: the shorter is the smaller, and of
\* two of one length the one with the smaller digit where they first differ
digitsLess(a, b) ==
    LET differ == {i \in 1..Len(a) : unitAt(a, i) # unitAt(b, i)}
        first == CHOOSE i \in differ : \A j \in differ : i <= j
    IN  IF Len(a) # Len(b) THEN Len(a) < Len(b)
        ELSE differ # {} /\ DECIMAL[unitAt(a, first)] < DECIMAL[unitAt(b, first)]

\* a < b for two integers held as numerals
intLess(a, b) ==
    LET negative(n) == unitAt(n, 1) = "-"
        digits(n) == IF negative(n) THEN SubSeq(n, 2, Len(n)) ELSE n
    IN  IF negative(a) # negative(b) THEN negative(a)
        ELSE IF negative(a) THEN digitsLess(digits(b), digits(a))
        ELSE digitsLess(digits(a), digits(b))

\* while len(v.split(".")) < 3: v += ".0"
RECURSIVE padVersion(_)
padVersion(v) ==
    IF Len(split(v, ".")) < 3 THEN padVersion(v \o <<".", "0">>) ELSE v

\* versioning_dates[v], a set of <<version, date>> pairs
hasDate(vd, v) == \E e \in vd : e[1] = v
dateOf(vd, v) == (CHOOSE e \in vd : e[1] = v)[2]

\* modified - new
modifiedNew(g, r, vd) ==
    LET v == padVersion(strip(r.julkaisuversio, {"v"}))
        early == startswith(v, <<"0", ".">>)
    IN  IF strip(r.julkaisuversio, {"v"}) = <<>>
        THEN [err |-> "", graph |-> g]
        ELSE IF early /\ ~isNumeral(split(v, ".")[2])
        THEN [err |-> "invalid literal for int()", graph |-> g]
        ELSE IF (early /\ intLess(int(split(v, ".")[2]), "4")) \/ v = <<"0", ".", "4", ".", "0">>
        THEN [err |-> "",
              graph |-> add(g, <<bffi_id(r), DCTERMS_modified,
                                 Literal(<<"2024-02-23", " (", "New", ")">>, "")>>)]
        ELSE IF vd = {}
        THEN [err |-> "", graph |-> g]
        ELSE IF ~hasDate(vd, v)
        THEN [err |-> "KeyError: versioning_dates", graph |-> g]
        ELSE [err |-> "",
              graph |-> add(g, <<bffi_id(r), DCTERMS_modified,
                                 Literal(<<dateOf(vd, v), " (", "New", ")">>, "")>>)]

\* labels for the label cells that are not empty
labels_skipsEmpty(g, r) ==
    g \cup {<<bffi_id(r), RDFS_label, Literal(r[c[1]], c[2])>> :
              c \in {x \in {<<"label_en", "en">>, <<"label_fi", "fi">>} : r[x[1]] # <<>>}}

\* labels
labels(g, r) ==
    g \cup {<<bffi_id(r), RDFS_label, Literal(r.label_en, "en")>>,
            <<bffi_id(r), RDFS_label, Literal(r.label_fi, "fi")>>}

\* a guard that looks at the identifier alone
processesCell_idOnly(r, prev, col) == r[col] # <<>> /\ r.id # prev.id

\* a guard that looks at the cell alone
processesCell_always(r, prev, col) == r[col] # <<>>

\* the guard of the domain and range columns: the cell is not empty and is
\* not the previous row's cell of the same identifier
processesCell(r, prev, col) ==
    r[col] # <<>> /\ (r.id # prev.id \/ r[col] # prev[col])

\* domain
domainCol(g, nb, r, prev) ==
    IF processesCell(r, prev, "domain")
    THEN processComplexCol(g, nb, bffi_id(r), RDFS_domain, r.domain)
    ELSE [err |-> "", graph |-> g, nb |-> nb]

\* range
rangeCol(g, nb, r, prev) ==
    IF processesCell(r, prev, "range")
    THEN processComplexCol(g, nb, bffi_id(r), RDFS_range, r.range)
    ELSE [err |-> "", graph |-> g, nb |-> nb]

\* related value vocabulary
rvvCol(g, r) ==
    addItems(g, bffi_id(r), BFFIMETA_relatedValueVocabulary, listItems(r.rvv, ","))

\* domain, range and related value vocabulary, in this order
domainRangeCols(g, nb, r, prev) ==
    LET d == domainCol(g, nb, r, prev)
        rg == rangeCol(d.graph, d.nb, r, prev)
        v == rvvCol(rg.graph, r)
    IN  IF d.err # "" THEN d
        ELSE IF rg.err # "" THEN rg
        ELSE [err |-> v.err, graph |-> v.graph, nb |-> rg.nb]

OBJECT_PROPERTY_TOKENS == {<<"owl", ":", "ObjectProperty">>,
                           <<"owl", ":", "SymmetricProperty">>}

\* OWL[bffi_type[4:]]
owlTerm(token) == <<"iri">> \o OWL \o SubSeq(token, 3, Len(token))

\* type owl:Class
classType(g, r) ==
    [err |-> "", graph |-> add(g, <<bffi_id(r), RDF_type, OWL_Class>>)]

\* type owl:ObjectProperty or owl:SymmetricProperty, with the default range
objectPropertyType(g, r) ==
    [err |-> "",
     graph |-> g \cup {<<bffi_id(r), RDF_type, owlTerm(r.type)>>,
                       <<bffi_id(r), RDF_type, OWL_ObjectProperty>>}
                 \cup (IF objects(g, bffi_id(r), RDFS_range) = {}
                       THEN {<<bffi_id(r), RDFS_range, RDFS_Resource>>}
                       ELSE {})]

\* a datatype property type that accepts any range
datatypePropertyType_anyRange(g, r) ==
    [err |-> "",
     graph |-> add(g, <<bffi_id(r), RDF_type, OWL_DatatypeProperty>>)
                 \cup (IF objects(g, bffi_id(r), RDFS_range) = {}
                       THEN {<<bffi_id(r), RDFS_range, RDFS_Literal>>}
                       ELSE {})]

\* type owl:DatatypeProperty: every range must be rdfs:Literal, which is
\* also the default range
datatypePropertyType(g, r) ==
    IF \E o \in objects(g, bffi_id(r), RDFS_range) : o # RDFS_Literal
    THEN [err |-> "range mismatch for datatype property",
          graph |-> add(g, <<bffi_id(r), RDF_type, OWL_DatatypeProperty>>)]
    ELSE [err |-> "",
          graph |-> add(g, <<bffi_id(r), RDF_type, OWL_DatatypeProperty>>)
                      \cup (IF objects(g, bffi_id(r), RDFS_range) = {}
                            THEN {<<bffi_id(r), RDFS_range, RDFS_Literal>>}
                            ELSE {})]

\* a type column that passes over an empty type cell
typeCol_skipsEmpty(g, r) ==
    IF r.type = <<"owl", ":", "Class">> THEN classType(g, r)
    ELSE IF r.type \in OBJECT_PROPERTY_TOKENS THEN objectPropertyType(g, r)
    ELSE IF r.type = <<"owl", ":", "DatatypeProperty">> THEN datatypePropertyType(g, r)
    ELSE IF r.type = <<>> THEN [err |-> "", graph |-> g]
    ELSE [err |-> "unexpected type value", graph |-> g]

\* type
typeCol(g, r) ==
    IF r.type = <<"owl", ":", "Class">> THEN classType(g, r)
    ELSE IF r.type \in OBJECT_PROPERTY_TOKENS THEN objectPropertyType(g, r)
    ELSE IF r.type = <<"owl", ":", "DatatypeProperty">> THEN datatypePropertyType(g, r)
    ELSE [err |-> "unexpected type value", graph |-> g]

BF_MAPPINGS == {<<"owl", ":", "equivalentClass">>,
                <<"owl", ":", "equivalentProperty">>,
                <<"bffi-meta", ":", "exactMatch">>,
                <<"bffi-meta", ":", "closeMatch">>,
                <<"bffi-meta", ":", "broadMatch">>}

RDA_MAPPINGS == {<<"bffi-meta", ":", "broadMatch">>,
                 <<"bffi-meta", ":", "closeMatch">>,
                 <<"bffi-meta", ":", "exactMatch">>,
                 <<"bffi-meta", ":", "narrowMatch">>,
                 <<"rdfs", ":", "seeAlso">>,
                 <<"bffi-meta", ":", "relatedValueVocabulary">>}

\* LKD to BF mapping
bfMapping(g, r) ==
    IF r.map_bf \notin BF_MAPPINGS
    THEN IF r.map_bf \notin EMPTY_COL_VALS
         THEN [err |-> "unexpected BIBFRAME mapping value", graph |-> g]
         ELSE [err |-> "", graph |-> g]
    ELSE IF r.bibframeURI \in EMPTY_COL_VALS
    THEN [err |-> "", graph |-> g]
    ELSE IF isError(from_n3(r.map_bf))
    THEN [err |-> from_n3(r.map_bf)[2], graph |-> g]
    ELSE [err |-> "",
          graph |-> add(g, <<bffi_id(r), from_n3(r.map_bf), absoluteIRI(r.bibframeURI)>>)]

\* for item in rdaURI items: add the mapping to the expanded item; the class
\* test that follows builds ValueError objects and drops them
RECURSIVE rdaItems(_, _, _)
rdaItems(g, r, items) ==
    IF items = <<>> THEN [err |-> "", graph |-> g]
    ELSE IF isError(expandItem(Head(items)))
    THEN [err |-> expandItem(Head(items))[2], graph |-> g]
    ELSE IF isError(from_n3(r.map_rda))
    THEN [err |-> from_n3(r.map_rda)[2], graph |-> g]
    ELSE rdaItems(add(g, <<bffi_id(r), from_n3(r.map_rda), expandItem(Head(items))>>),
                  r, Tail(items))

\* an RDA mapping checked against the BIBFRAME whitelist
rdaMapping_bfWhitelist(g, r) ==
    IF r.map_rda \notin BF_MAPPINGS
    THEN IF r.map_rda \notin EMPTY_COL_VALS
         THEN [err |-> "unexpected RDA mapping value", graph |-> g]
         ELSE [err |-> "", graph |-> g]
    ELSE IF r.rdaURI \in EMPTY_COL_VALS
    THEN [err |-> "", graph |-> g]
    ELSE rdaItems(g, r, stripEach(split(r.rdaURI, "|")))

\* LKD to RDA mapping
rdaMapping(g, r) ==
    IF r.map_rda \notin RDA_MAPPINGS
    THEN IF r.map_rda \notin EMPTY_COL_VALS
         THEN [err |-> "unexpected RDA mapping value", graph |-> g]
         ELSE [err |-> "", graph |-> g]
    ELSE IF r.rdaURI \in EMPTY_COL_VALS
    THEN [err |-> "", graph |-> g]
    ELSE rdaItems(g, r, stripEach(split(r.rdaURI, "|")))

mappingCols(g, r) ==
    IF bfMapping(g, r).err # "" THEN bfMapping(g, r)
    ELSE rdaMapping(bfMapping(g, r).graph, r)

\* graph.add((s, p, from_n3(cell))); graph.add((from_n3(cell), p, s))
symmetricCol(g, s, p, cell) ==
    IF cell = <<>> THEN [err |-> "", graph |-> g]
    ELSE IF isError(from_n3(cell)) THEN [err |-> from_n3(cell)[2], graph |-> g]
    ELSE [err |-> "",
          graph |-> g \cup {<<s, p, from_n3(cell)>>, <<from_n3(cell), p, s>>}]

\* subclasses, subproperties, inverse of, disjoint with
relationCols(g, r) ==
    LET sc == addItems(g, bffi_id(r), RDFS_subClassOf, listItems(r.subClassOf, ","))
        sp == addItems(sc.graph, bffi_id(r), RDFS_subPropertyOf,
                       listItems(r.subPropertyOf, ","))
        inv == symmetricCol(sp.graph, bffi_id(r), OWL_inverseOf, r.inverseOf)
        dj == symmetricCol(inv.graph, bffi_id(r), OWL_disjointWith, r.disjointWith)
    IN  IF sc.err # "" THEN sc
        ELSE IF sp.err # "" THEN sp
        ELSE IF inv.err # "" THEN inv
        ELSE dj

\* the predicates deprecation keeps
RETAINED == {RDFS_label, DCTERMS_modified, RDF_type}

\* remove (s, rdf:type, None) and add the deprecated type
retype(g, s) ==
    add(removeSP(g, s, RDF_type),
        <<s, RDF_type,
          IF <<s, RDF_type, OWL_Class>> \in g
          THEN OWL_DeprecatedClass
          ELSE OWL_DeprecatedProperty>>)

\* a deprecation that removes nothing
stripSubject_keepsAll(g, s) == g

\* for pred, obj in predicate_objects(s): if pred is not retained,
\* graph.remove((s, pred, None))
stripSubject(g, s) == {t \in g : t[1] = s => t[2] \in RETAINED}

\* if row["lkd status"] == "deprecated": ...
deprecation(g, r) ==
    IF r.status = <<"deprecated">>
    THEN addItems(add(stripSubject(retype(g, bffi_id(r)), bffi_id(r)),
                      <<bffi_id(r), OWL_deprecated, TRUE_LITERAL>>),
                  bffi_id(r), DCTERMS_isReplacedBy, listItems(r.replacedBy, ","))
    ELSE [err |-> "", graph |-> g]

(***************************************************************************)
(* processChangeNotesCSV                                                   *)
(***************************************************************************)
NoteColumns == {"id", "version", "changeNote"}

\* a > b for tuples of strings: lexicographic, each component compared as a
\* string
RECURSIVE tupleGreater(_, _)
tupleGreater(a, b) ==
    IF a = <<>> THEN FALSE
    ELSE IF b = <<>> THEN TRUE
    ELSE IF textOf(Head(a)) = textOf(Head(b)) THEN tupleGreater(Tail(a), Tail(b))
    ELSE textLess(textOf(Head(b)), textOf(Head(a)))

\* a record handed to logging: its level, its message and the terms named
logged(level, msg, about) == [level |-> level, msg |-> msg, about |-> about]

\* one row of the change notes file, on the change-note graph cg;
\* version is the build version (self.version)
changeNoteRow(cg, raw, version, vd) ==
    LET r == [c \in NoteColumns |-> strip(raw[c], WHITESPACE)]
        cnote_iri == expand_curie(r.id)
        change_version == strip(r.version, {"v"})
        cnote_version_tuple == split(change_version, ".")
        versionTuple == split(version, ".")
        mismatch == IF Len(cnote_version_tuple) # 3
                    THEN {logged("WARNING", "change version does not match MAJOR.MINOR.PATCH model",
                                 <<cnote_iri>>)}
                    ELSE {}
        multiple == IF \E note \in objects(cg, cnote_iri, DCTERMS_modified) :
                          textStartswith(textOf(strOf(note)),
                                         dateOf(vd, change_version))
                    THEN {logged("WARNING", "Multiple change notes detected", <<cnote_iri>>)}
                    ELSE {}
    IN  IF r.changeNote = <<>> THEN [err |-> "", graph |-> cg, log |-> {}]
        ELSE IF isError(cnote_iri)
        THEN [err |-> cnote_iri[2], graph |-> cg, log |-> {}]
        ELSE IF Len(cnote_version_tuple) = 3 /\ Len(versionTuple) # 3
        THEN [err |-> "TypeError: '>' not supported between 'str' and 'int'",
              graph |-> cg, log |-> {}]
        ELSE IF Len(cnote_version_tuple) = 3
                /\ tupleGreater(cnote_version_tuple, versionTuple)
        THEN [err |-> "", graph |-> cg, log |-> {}]
        ELSE IF ~hasDate(vd, change_version)
        THEN [err |-> "KeyError: versioning_dates", graph |-> cg, log |-> mismatch]
        ELSE [err |-> "",
              graph |-> add(cg, <<cnote_iri, DCTERMS_modified,
                                  Literal(<<dateOf(vd, change_version), " (">>
                                          \o r.changeNote \o <<")">>, "")>>),
              log |-> mismatch \cup multiple]

\* for row in csvreader: the rows in file order, up to the first error
RECURSIVE changeNoteRows(_, _, _, _)
changeNoteRows(cg, rows, version, vd) ==
    IF rows = <<>> THEN [err |-> "", graph |-> cg, log |-> {}]
    ELSE LET first == changeNoteRow(cg, Head(rows), version, vd)
             rest == changeNoteRows(first.graph, Tail(rows), version, vd)
         IN  IF first.err # "" THEN first
             ELSE [err |-> rest.err, graph |-> rest.graph,
                   log |-> first.log \cup rest.log]

\* str(cnoteLit)[12:].startswith("Deprecated"): the text from the
\* thirteenth character on
isDeprecationNote(lit) == textStartswith(textFrom(textOf(strOf(lit)), 12), "Deprecated")

\* every change note attached, whatever its subject
attachChangeNotes_all(g, cg) == g \cup cg

\* the change notes attached to the main graph after convertCSV
attachChangeNotes(g, cg) ==
    g \cup {t \in cg :
              /\ \E u \in g : u[1] = t[1]
              /\ t[2] = DCTERMS_modified
              /\ (<<t[1], OWL_deprecated, TRUE_LITERAL>> \in g
                    => isDeprecationNote(t[3]))}

\* what attaching the change notes logs: a warning for each note subject
\* the main graph does not have, a debug record for each deprecated subject
\* with a note that is dropped
attachLog(g, cg) ==
    {logged("WARNING", "has only a change note stated about it", <<t[1]>>) :
        t \in {u \in cg : ~\E v \in g : v[1] = u[1]}}
    \cup
    {logged("DEBUG", "is deprecated, dropping non-essential change notes", <<t[1]>>) :
        t \in {u \in cg : /\ \E v \in g : v[1] = u[1]
                          /\ <<u[1], OWL_deprecated, TRUE_LITERAL>> \in g
                          /\ ~isDeprecationNote(u[3])}}

(***************************************************************************)
(* The run: DataModelConverter.__init__ from the change notes on           *)
(***************************************************************************)
VARIABLES
    pc,               \* where the run is
    args,             \* the command line and the files it names: version,
                      \* prior_version, publishing_url, releases, notes, ...
    versioning_dates, \* self.versioning_dates, a set of <<version, date>>
    graph,            \* self.graph
    cnotes_graph,     \* self.cnotes_graph
    nb,               \* blank nodes made so far by the Turtle parser
    row,              \* convertCSV: the row being handled
    rowStart,         \* convertCSV: the graph when that row was read
    prevRow,          \* convertCSV: the previous accepted row
    nrows,            \* convertCSV: rows read from the file so far
    cached,           \* the LoC ontology files present on disk
    err,              \* the exception that ended the run, "" if none
    output,           \* the files written
    log               \* the records handed to logging

vars == <<pc, args, versioning_dates, graph, cnotes_graph, nb, row, rowStart,
          prevRow, nrows, cached, err, output, log>>

\* the ontology node, expand_curie('bffi:')
bffiURIRef == <<"iri">> \o BFFI_NS
OWL_Ontology == URIRef(OWL, "Ontology")
OWL_equivalentClass == URIRef(OWL, "equivalentClass")
OWL_equivalentProperty == URIRef(OWL, "equivalentProperty")
DCTERMS_relation == URIRef(DCTERMS, "relation")
SKOS_definition == URIRef(SKOS, "definition")

\* no relation is taken for a LoC ontology
isLocOntology_none(o) == FALSE

\* a relation that names a LoC ontology: an IRI whose text starts with
\* http://id.loc.gov/ontologies/ and ends with "/"
isLocOntology(o) ==
    LET relation_str == textOf(strOf(o))
    IN  /\ isIRI(o)
        /\ textStartswith(relation_str, "http://id.loc.gov/ontologies/")
        /\ textEndswith(relation_str, "/")

\* relation.split("/")[-2] + ".ttl": the name of the local copy, after the
\* piece of the relation between its last two slashes
local_bf_source(o) ==
    LET u == textOf(strOf(o))
        slashes == {i \in 1..(Len(u) - 1) : unitAt(u, i) = "/"}
        last == CHOOSE i \in slashes : \A j \in slashes : j <= i
    IN  SubSeq(u, last + 1, Len(u) - 1) \o ".ttl"

\* "BFLC definition: " if "bflc" in relation_str else "BIBFRAME definition: "
bf_definition_prefix(o) ==
    LET u == textOf(strOf(o))
    IN  IF \E i \in 1..Len(u) : textStartswith(SubSeq(u, i, Len(u)), "bflc")
        THEN "BFLC definition: " ELSE "BIBFRAME definition: "

BFLC_NS == <<"http", ":", "//id.loc.gov/ontologies/bflc/">>

\* the LoC BIBFRAME ontology and the LoC BFLC ontology, as the network
\* serves them
BF_GRAPH ==
    {<<URIRef(BF_NS, "Work"), SKOS_definition, Literal(<<"Resource reflecting a conceptual essence">>, "en")>>}
BFLC_GRAPH ==
    {<<URIRef(BF_NS, "Work"), SKOS_definition, Literal(<<"Work, as BFLC extends it">>, "en")>>,
     <<URIRef(BFLC_NS, "Relationship"), SKOS_definition, Literal(<<"Relationship between resources">>, "en")>>}

\* Graph().parse(relation): what the network serves at a relation
parseRelation(o) ==
    IF o = <<"iri">> \o BF_NS THEN BF_GRAPH
    ELSE IF o = <<"iri">> \o BFLC_NS THEN BFLC_GRAPH
    ELSE {}

\* lines 184-186: the definitions copied from a LoC ontology for the terms
\* the graph states an equivalence with
bfDefinitions(g, bf_graph, prefix) ==
    {<<t[1], SKOS_definition, Literal(<<prefix>> \o strOf(d[3]), "en")>> :
        <<t, d>> \in {x \in g \X bf_graph :
                        /\ x[1][2] \in {OWL_equivalentClass, OWL_equivalentProperty}
                        /\ x[2][1] = x[1][3]
                        /\ x[2][2] = SKOS_definition}}

\* lines 169-187 for the relations in the order the graph gives them: a
\* local copy is read, a missing one is fetched, saved and logged, and a
\* fetch that fails (the relations of fails) ends the run where it is
RECURSIVE fetchRelations(_, _, _, _, _)
fetchRelations(g, files, records, relations, fails) ==
    IF relations = <<>>
    THEN [err |-> "", graph |-> g, cached |-> files, log |-> records]
    ELSE LET relation == Head(relations)
             name == local_bf_source(relation)
             exists == \E f \in files : f[1] = name
             bf_graph == IF exists THEN (CHOOSE f \in files : f[1] = name)[2]
                         ELSE parseRelation(relation)
         IN  IF ~exists /\ relation \in fails
             THEN [err |-> "fetch failed", graph |-> g, cached |-> files,
                   log |-> records]
             ELSE fetchRelations(
                      g \cup bfDefinitions(g, bf_graph, bf_definition_prefix(relation)),
                      IF exists THEN files ELSE files \cup {<<name, bf_graph>>},
                      IF exists THEN records
                      ELSE records \cup {logged("INFO", "Downloaded LoC ontology file",
                                                <<name>>)},
                      Tail(relations), fails)

\* an error that is recorded while the run goes on
abort_runsOn(e) ==
    /\ pc' = "validate"
    /\ err' = e

\* an uncaught exception ends the run
abort(e) ==
    /\ pc' = "aborted"
    /\ err' = e

\* version metadata that is added next to what the overlay holds
versionMetadata_adds(g, a, now) ==
    g \cup {<<bffiURIRef, DCTERMS_modified, Literal(now, "xsd:dateTime")>>}
      \cup (IF a.version = <<>> THEN {}
            ELSE {<<bffiURIRef, URIRef(OWL, "versionIRI"),
                    <<"iri">> \o a.publishing_url
                        \o [i \in 1..Len(a.version) |->
                              IF a.version[i] = "." THEN "-" ELSE a.version[i]]
                        \o <<"/">>>>,
                  <<bffiURIRef, URIRef(OWL, "versionInfo"), Literal(a.version, "")>>})

\* lines 124-144: the issue date, version IRI, version info, prior version
\* and modification time of the ontology node; now is curdate, as its date
\* and its time
versionMetadata(g, a, now) ==
    LET issued == URIRef(DCTERMS, "issued")
        versionIRI == URIRef(OWL, "versionIRI")
        versionInfo == URIRef(OWL, "versionInfo")
        priorVersion == URIRef(OWL, "priorVersion")
        dashed(v) == [i \in 1..Len(v) |-> IF v[i] = "." THEN "-" ELSE v[i]]
        g1 == IF objects(g, bffiURIRef, issued) = {} /\ a.version # <<>>
              THEN add(g, <<bffiURIRef, issued, Literal(<<now[1]>>, "xsd:date")>>)
              ELSE g
        g2 == IF a.version # <<>>
              THEN add(add(removeSP(removeSP(g1, bffiURIRef, versionIRI),
                                    bffiURIRef, versionInfo),
                           <<bffiURIRef, versionIRI,
                             <<"iri">> \o a.publishing_url \o dashed(a.version) \o <<"/">>>>),
                       <<bffiURIRef, versionInfo, Literal(a.version, "")>>)
              ELSE g1
        g3 == IF a.prior_version # <<>>
              THEN add(removeSP(g2, bffiURIRef, priorVersion),
                       <<bffiURIRef, priorVersion,
                         <<"iri">> \o a.publishing_url \o dashed(a.prior_version)
                             \o <<"/">>>>)
              ELSE g2
    IN  add(removeSP(g3, bffiURIRef, DCTERMS_modified),
            <<bffiURIRef, DCTERMS_modified, Literal(now, "xsd:dateTime")>>)

\* the clock: datetime.utcnow() as its date and its time of day
NOON == <<"2026-10-29", "T12:00:00Z">>
Clock == {NOON, <<"2026-10-30", "T00:00:01Z">>}

DCTERMS_description == URIRef(DCTERMS, "description")

\* literal.language: the language tag of a literal, "" (None) when it has
\* none or has a datatype
language(lit) == IF textStartswith(lit[2], "xsd:") THEN "" ELSE lit[2]

\* lines 104-122, the rows of the releases file in turn: the issue date of
\* every row that has one is noted under the row's version (a later row of
\* the same version replaces it), and the row of the build version gives
\* the ontology node its issue date and extends its descriptions by the
\* row's description of the same language. A description that is no
\* literal, has no language or is of a language the file has no column for
\* raises when the loop comes to it, with the descriptions gone through
\* before it (some of changed) already added; the graph gives the
\* descriptions in an order of its own, so errs holds the error of each
\* description that raises.
RECURSIVE loadReleases(_, _, _, _)
loadReleases(g, vd, rows, version) ==
    IF rows = <<>>
    THEN [errs |-> {""}, graph |-> g, dates |-> vd, changed |-> {}]
    ELSE LET r == Head(rows)
             version_info == strip(r.version, WHITESPACE)
             issued_date == textOf(strip(r.issued, WHITESPACE))
             vd1 == IF Len(issued_date) = 0 THEN vd
                    ELSE {e \in vd : e[1] # version_info}
                           \cup {<<version_info, issued_date>>}
             g1 == IF Len(issued_date) = 0 THEN g
                   ELSE add(g, <<bffiURIRef, URIRef(DCTERMS, "issued"),
                                 Literal(<<issued_date>>, "xsd:date")>>)
             literals == objects(g1, bffiURIRef, DCTERMS_description)
             desc_end(lit) == strip(r.description[language(lit)], WHITESPACE)
             extended == {lit \in literals :
                            /\ isLiteral(lit)
                            /\ language(lit) \in DOMAIN r.description
                            /\ desc_end(lit) # <<>>}
             joined(lit) == <<bffiURIRef, DCTERMS_description,
                              Literal(strOf(lit) \o <<" ">> \o desc_end(lit),
                                      language(lit))>>
             to_be_removed == {<<bffiURIRef, DCTERMS_description, lit>> : lit \in extended}
             \* literal.language of a term that is no literal, "dct:description-"
             \* + None, and row[...] of a column the file does not have
             raised(lit) == IF ~isLiteral(lit) THEN "AttributeError: language"
                            ELSE IF language(lit) = ""
                            THEN "TypeError: can only concatenate str"
                            ELSE "KeyError: dct:description"
             raising == {lit \in literals :
                           \/ ~isLiteral(lit)
                           \/ language(lit) \notin DOMAIN r.description}
             g2 == (g1 \cup {joined(lit) : lit \in extended}) \ to_be_removed
         IN  IF textOf(version_info) # textOf(version)
             THEN loadReleases(g, vd1, Tail(rows), version)
             ELSE IF raising # {}
             THEN [errs |-> {raised(lit) : lit \in raising}, graph |-> g1,
                   dates |-> vd1, changed |-> {joined(lit) : lit \in extended}]
             ELSE loadReleases(g2, vd1, Tail(rows), version)

\* lines 101-122: the releases file is read when the run has one and
\* builds a version
LoadReleases ==
    /\ pc = "releases"
    /\ IF args.releases_path /\ args.version # <<>>
       THEN LET res == loadReleases(graph, versioning_dates, args.releases, args.version)
            IN  /\ versioning_dates' = res.dates
                /\ \E added \in SUBSET res.changed : graph' = res.graph \cup added
                /\ \E e \in res.errs :
                     IF e = ""
                     THEN pc' = "metadata" /\ UNCHANGED err
                     ELSE abort(e)
       ELSE /\ pc' = "metadata"
            /\ UNCHANGED <<versioning_dates, graph, err>>
    /\ UNCHANGED <<args, cnotes_graph, nb, row, rowStart, prevRow, nrows, cached, output,
                   log>>

\* lines 124-144, at a time the clock may show
InjectVersionMetadata(clock) ==
    /\ pc = "metadata"
    /\ pc' = "cnotes"
    /\ \E now \in clock : graph' = versionMetadata(graph, args, now)
    /\ UNCHANGED <<args, versioning_dates, cnotes_graph, nb, row, rowStart, prevRow, nrows,
                   cached, err, output, log>>

\* lines 146-147
ProcessChangeNotes ==
    /\ pc = "cnotes"
    /\ IF args.change_notes_path /\ versioning_dates # {}
       THEN LET res == changeNoteRows({}, args.notes, args.version, versioning_dates)
                model == IF Len(split(args.version, ".")) # 3
                         THEN {logged("WARNING",
                                      "Version numbering does not match MAJOR.MINOR.PATCH model",
                                      <<>>)}
                         ELSE {}
            IN  /\ log' = log \cup model \cup res.log
                /\ IF res.err # ""
                   THEN abort(res.err) /\ cnotes_graph' = res.graph
                   ELSE pc' = "rows" /\ cnotes_graph' = res.graph /\ UNCHANGED err
       ELSE pc' = "rows" /\ UNCHANGED <<cnotes_graph, err, log>>
    /\ UNCHANGED <<args, versioning_dates, graph, nb, row, rowStart, prevRow, nrows, cached,
                   output>>

\* convertCSV: read the next row, normalize it, drop it or check its
\* identifier, then the "modified - new" and label columns
ReadRow(RowSet, more) ==
    /\ pc = "rows"
    /\ more
    /\ \E raw \in RowSet :
         LET r == normalize(raw)
             m == modifiedNew(graph, r, versioning_dates)
         IN  /\ row' = r
             /\ rowStart' = graph
             /\ nrows' = nrows + 1
             /\ IF r.status \notin ACCEPTED_STATUS
                THEN UNCHANGED <<pc, graph, err>>
                ELSE IF ~startswith(r.id, <<"bffi", ":">>)
                THEN abort("BFFI-id is not within the bffi: namespace")
                     /\ UNCHANGED graph
                ELSE IF m.err # ""
                THEN abort(m.err) /\ UNCHANGED graph
                ELSE pc' = "domain" /\ graph' = labels(m.graph, r) /\ UNCHANGED err
    /\ UNCHANGED <<args, versioning_dates, cnotes_graph, nb, prevRow, cached, output, log>>

\* convertCSV: domain, range, related value vocabulary
DomainRangeCols ==
    /\ pc = "domain"
    /\ LET res == domainRangeCols(graph, nb, row, prevRow)
       IN  /\ graph' = res.graph
           /\ nb' = res.nb
           /\ IF res.err # "" THEN abort(res.err) ELSE pc' = "type" /\ UNCHANGED err
    /\ UNCHANGED <<args, versioning_dates, cnotes_graph, row, rowStart, prevRow, nrows, cached,
                   output, log>>

\* convertCSV: type
TypeCol ==
    /\ pc = "type"
    /\ LET res == typeCol(graph, row)
       IN  /\ graph' = res.graph
           /\ IF res.err # "" THEN abort(res.err) ELSE pc' = "mapping" /\ UNCHANGED err
    /\ UNCHANGED <<args, versioning_dates, cnotes_graph, nb, row, rowStart, prevRow, nrows,
                   cached, output, log>>

\* convertCSV: LKD to BF mapping, LKD to RDA mapping
MappingCols ==
    /\ pc = "mapping"
    /\ LET res == mappingCols(graph, row)
       IN  /\ graph' = res.graph
           /\ IF res.err # "" THEN abort(res.err) ELSE pc' = "relations" /\ UNCHANGED err
    /\ UNCHANGED <<args, versioning_dates, cnotes_graph, nb, row, rowStart, prevRow, nrows,
                   cached, output, log>>

\* convertCSV: subclasses, subproperties, inverse of, disjoint with
RelationCols ==
    /\ pc = "relations"
    /\ LET res == relationCols(graph, row)
       IN  /\ graph' = res.graph
           /\ IF res.err # "" THEN abort(res.err) ELSE pc' = "status" /\ UNCHANGED err
    /\ UNCHANGED <<args, versioning_dates, cnotes_graph, nb, row, rowStart, prevRow, nrows,
                   cached, output, log>>

\* convertCSV: the deprecation of a row with status deprecated, and the
\* update of the previous row
EndRow ==
    /\ pc = "status"
    /\ LET res == deprecation(graph, row)
       IN  /\ graph' = res.graph
           /\ IF res.err # ""
              THEN abort(res.err) /\ UNCHANGED prevRow
              ELSE pc' = "rows" /\ prevRow' = row /\ UNCHANGED err
    /\ UNCHANGED <<args, versioning_dates, cnotes_graph, nb, row, rowStart, nrows, cached,
                   output, log>>

\* convertCSV: the file has no more rows
EndOfFile ==
    /\ pc = "rows"
    /\ pc' = "attach"
    /\ UNCHANGED <<args, versioning_dates, graph, cnotes_graph, nb, row, rowStart, prevRow,
                   nrows, cached, err, output, log>>

\* lines 151-167
AttachChangeNotes ==
    /\ pc = "attach"
    /\ pc' = "fetch"
    /\ graph' = attachChangeNotes(graph, cnotes_graph)
    /\ log' = log \cup attachLog(graph, cnotes_graph)
    /\ UNCHANGED <<args, versioning_dates, cnotes_graph, nb, row, rowStart, prevRow, nrows,
                   cached, err, output>>

\* lines 169-187: each LoC ontology the ontology node is related to is read
\* from its local copy, or fetched and saved when there is none; a fetch
\* that fails ends the run
FetchRelations ==
    /\ pc = "fetch"
    /\ LET relations == {o \in objects(graph, bffiURIRef, DCTERMS_relation) :
                           isLocOntology(o)}
           \* the orders the graph may give them in
           orders == {f \in [1..Cardinality(relations) -> relations] :
                        \A o \in relations : \E i \in DOMAIN f : f[i] = o}
       IN  \E order \in orders, fails \in SUBSET relations :
             LET res == fetchRelations(graph, cached, log, order, fails)
             IN  /\ graph' = res.graph
                 /\ cached' = res.cached
                 /\ log' = res.log
                 /\ IF res.err = ""
                    THEN pc' = "validate" /\ UNCHANGED err
                    ELSE abort(res.err)
    /\ UNCHANGED <<args, versioning_dates, cnotes_graph, nb, row, rowStart, prevRow, nrows,
                   output>>

(***************************************************************************)
(* validate                                                                *)
(***************************************************************************)
\* rdflib.namespace: the code points of the categories a local name may
\* start with (NAME_START_CATEGORIES: Ll, Lu, Lo, Lt, Nl), of the decimal
\* digits (Nd), of the categories a local name may go on with
\* (NAME_CATEGORIES: also Mc, Me, Mn, Lm and Nd) and of those a split may
\* start at (SPLIT_START_CATEGORIES: the name starts and Nd), and the
\* other characters allowed in a name (ALLOWED_NAME_CHARS: the middle dot,
\* U+0387, "-", ".", "_", "%", "(", ")")
NAME_START_CATEGORIES ==
    LET ranges ==
        <<<<65, 90>>, <<97, 122>>, <<170, 170>>, <<181, 181>>, <<186, 186>>,
          <<192, 214>>, <<216, 246>>, <<248, 687>>, <<880, 883>>, <<886, 887>>,
          <<891, 893>>, <<895, 895>>, <<902, 902>>, <<904, 906>>, <<908, 908>>,
          <<910, 929>>, <<931, 1013>>, <<1015, 1153>>, <<1162, 1327>>,
          <<1329, 1366>>, <<1376, 1416>>, <<1488, 1514>>, <<1519, 1522>>,
          <<1568, 1599>>, <<1601, 1610>>, <<1646, 1647>>, <<1649, 1747>>,
          <<1749, 1749>>, <<1774, 1775>>, <<1786, 1788>>, <<1791, 1791>>,
          <<1808, 1808>>, <<1810, 1839>>, <<1869, 1957>>, <<1969, 1969>>,
          <<1994, 2026>>, <<2048, 2069>>, <<2112, 2136>>, <<2144, 2154>>,
          <<2160, 2183>>, <<2185, 2190>>, <<2208, 2248>>, <<2308, 2361>>,
          <<2365, 2365>>, <<2384, 2384>>, <<2392, 2401>>, <<2418, 2432>>,
          <<2437, 2444>>, <<2447, 2448>>, <<2451, 2472>>, <<2474, 2480>>,
          <<2482, 2482>>, <<2486, 2489>>, <<2493, 2493>>, <<2510, 2510>>,
          <<2524, 2525>>, <<2527, 2529>>, <<2544, 2545>>, <<2556, 2556>>,
          <<2565, 2570>>, <<2575, 2576>>, <<2579, 2600>>, <<2602, 2608>>,
          <<2610, 2611>>, <<2613, 2614>>, <<2616, 2617>>, <<2649, 2652>>,
          <<2654, 2654>>, <<2674, 2676>>, <<2693, 2701>>, <<2703, 2705>>,
          <<2707, 2728>>, <<2730, 2736>>, <<2738, 2739>>, <<2741, 2745>>,
          <<2749, 2749>>, <<2768, 2768>>, <<2784, 2785>>, <<2809, 2809>>,
          <<2821, 2828>>, <<2831, 2832>>, <<2835, 2856>>, <<2858, 2864>>,
          <<2866, 2867>>, <<2869, 2873>>, <<2877, 2877>>, <<2908, 2909>>,
          <<2911, 2913>>, <<2929, 2929>>, <<2947, 2947>>, <<2949, 2954>>,
          <<2958, 2960>>, <<2962, 2965>>, <<2969, 2970>>, <<2972, 2972>>,
          <<2974, 2975>>, <<2979, 2980>>, <<2984, 2986>>, <<2990, 3001>>,
          <<3024, 3024>>, <<3077, 3084>>, <<3086, 3088>>, <<3090, 3112>>,
          <<3114, 3129>>, <<3133, 3133>>, <<3160, 3162>>, <<3165, 3165>>,
          <<3168, 3169>>, <<3200, 3200>>, <<3205, 3212>>, <<3214, 3216>>,
          <<3218, 3240>>, <<3242, 3251>>, <<3253, 3257>>, <<3261, 3261>>,
          <<3293, 3294>>, <<3296, 3297>>, <<3313, 3314>>, <<3332, 3340>>,
          <<3342, 3344>>, <<3346, 3386>>, <<3389, 3389>>, <<3406, 3406>>,
          <<3412, 3414>>, <<3423, 3425>>, <<3450, 3455>>, <<3461, 3478>>,
          <<3482, 3505>>, <<3507, 3515>>, <<3517, 3517>>, <<3520, 3526>>,
          <<3585, 3632>>, <<3634, 3635>>, <<3648, 3653>>, <<3713, 3714>>,
          <<3716, 3716>>, <<3718, 3722>>, <<3724, 3747>>, <<3749, 3749>>,
          <<3751, 3760>>, <<3762, 3763>>, <<3773, 3773>>, <<3776, 3780>>,
          <<3804, 3807>>, <<3840, 3840>>, <<3904, 3911>>, <<3913, 3948>>,
          <<3976, 3980>>, <<4096, 4138>>, <<4159, 4159>>, <<4176, 4181>>,
          <<4186, 4189>>, <<4193, 4193>>, <<4197, 4198>>, <<4206, 4208>>,
          <<4213, 4225>>, <<4238, 4238>>, <<4256, 4293>>, <<4295, 4295>>,
          <<4301, 4301>>, <<4304, 4346>>, <<4349, 4680>>, <<4682, 4685>>,
          <<4688, 4694>>, <<4696, 4696>>, <<4698, 4701>>, <<4704, 4744>>,
          <<4746, 4749>>, <<4752, 4784>>, <<4786, 4789>>, <<4792, 4798>>,
          <<4800, 4800>>, <<4802, 4805>>, <<4808, 4822>>, <<4824, 4880>>,
          <<4882, 4885>>, <<4888, 4954>>, <<4992, 5007>>, <<5024, 5109>>,
          <<5112, 5117>>, <<5121, 5740>>, <<5743, 5759>>, <<5761, 5786>>,
          <<5792, 5866>>, <<5870, 5880>>, <<5888, 5905>>, <<5919, 5937>>,
          <<5952, 5969>>, <<5984, 5996>>, <<5998, 6000>>, <<6016, 6067>>,
          <<6108, 6108>>, <<6176, 6210>>, <<6212, 6264>>, <<6272, 6276>>,
          <<6279, 6312>>, <<6314, 6314>>, <<6320, 6389>>, <<6400, 6430>>,
          <<6480, 6509>>, <<6512, 6516>>, <<6528, 6571>>, <<6576, 6601>>,
          <<6656, 6678>>, <<6688, 6740>>, <<6917, 6963>>, <<6981, 6988>>,
          <<7043, 7072>>, <<7086, 7087>>, <<7098, 7141>>, <<7168, 7203>>,
          <<7245, 7247>>, <<7258, 7287>>, <<7296, 7304>>, <<7312, 7354>>,
          <<7357, 7359>>, <<7401, 7404>>, <<7406, 7411>>, <<7413, 7414>>,
          <<7418, 7418>>, <<7424, 7467>>, <<7531, 7543>>, <<7545, 7578>>,
          <<7680, 7957>>, <<7960, 7965>>, <<7968, 8005>>, <<8008, 8013>>,
          <<8016, 8023>>, <<8025, 8025>>, <<8027, 8027>>, <<8029, 8029>>,
          <<8031, 8061>>, <<8064, 8116>>, <<8118, 8124>>, <<8126, 8126>>,
          <<8130, 8132>>, <<8134, 8140>>, <<8144, 8147>>, <<8150, 8155>>,
          <<8160, 8172>>, <<8178, 8180>>, <<8182, 8188>>, <<8450, 8450>>,
          <<8455, 8455>>, <<8458, 8467>>, <<8469, 8469>>, <<8473, 8477>>,
          <<8484, 8484>>, <<8486, 8486>>, <<8488, 8488>>, <<8490, 8493>>,
          <<8495, 8505>>, <<8508, 8511>>, <<8517, 8521>>, <<8526, 8526>>,
          <<8544, 8584>>, <<11264, 11387>>, <<11390, 11492>>, <<11499, 11502>>,
          <<11506, 11507>>, <<11520, 11557>>, <<11559, 11559>>, <<11565, 11565>>,
          <<11568, 11623>>, <<11648, 11670>>, <<11680, 11686>>, <<11688, 11694>>,
          <<11696, 11702>>, <<11704, 11710>>, <<11712, 11718>>, <<11720, 11726>>,
          <<11728, 11734>>, <<11736, 11742>>, <<12294, 12295>>, <<12321, 12329>>,
          <<12344, 12346>>, <<12348, 12348>>, <<12353, 12438>>, <<12447, 12447>>,
          <<12449, 12538>>, <<12543, 12543>>, <<12549, 12591>>, <<12593, 12686>>,
          <<12704, 12735>>, <<12784, 12799>>, <<13312, 19903>>, <<19968, 40980>>,
          <<40982, 42124>>, <<42192, 42231>>, <<42240, 42507>>, <<42512, 42527>>,
          <<42538, 42539>>, <<42560, 42606>>, <<42624, 42651>>, <<42656, 42735>>,
          <<42786, 42863>>, <<42865, 42887>>, <<42891, 42954>>, <<42960, 42961>>,
          <<42963, 42963>>, <<42965, 42969>>, <<42997, 42999>>, <<43002, 43009>>,
          <<43011, 43013>>, <<43015, 43018>>, <<43020, 43042>>, <<43072, 43123>>,
          <<43138, 43187>>, <<43250, 43255>>, <<43259, 43259>>, <<43261, 43262>>,
          <<43274, 43301>>, <<43312, 43334>>, <<43360, 43388>>, <<43396, 43442>>,
          <<43488, 43492>>, <<43495, 43503>>, <<43514, 43518>>, <<43520, 43560>>,
          <<43584, 43586>>, <<43588, 43595>>, <<43616, 43631>>, <<43633, 43638>>,
          <<43642, 43642>>, <<43646, 43695>>, <<43697, 43697>>, <<43701, 43702>>,
          <<43705, 43709>>, <<43712, 43712>>, <<43714, 43714>>, <<43739, 43740>>,
          <<43744, 43754>>, <<43762, 43762>>, <<43777, 43782>>, <<43785, 43790>>,
          <<43793, 43798>>, <<43808, 43814>>, <<43816, 43822>>, <<43824, 43866>>,
          <<43872, 43880>>, <<43888, 44002>>, <<44032, 55203>>, <<55216, 55238>>,
          <<55243, 55291>>, <<63744, 64109>>, <<64112, 64217>>, <<64256, 64262>>,
          <<64275, 64279>>, <<64285, 64285>>, <<64287, 64296>>, <<64298, 64310>>,
          <<64312, 64316>>, <<64318, 64318>>, <<64320, 64321>>, <<64323, 64324>>,
          <<64326, 64433>>, <<64467, 64829>>, <<64848, 64911>>, <<64914, 64967>>,
          <<65008, 65019>>, <<65136, 65140>>, <<65142, 65276>>, <<65313, 65338>>,
          <<65345, 65370>>, <<65382, 65391>>, <<65393, 65437>>, <<65440, 65470>>,
          <<65474, 65479>>, <<65482, 65487>>, <<65490, 65495>>, <<65498, 65500>>,
          <<65536, 65547>>, <<65549, 65574>>, <<65576, 65594>>, <<65596, 65597>>,
          <<65599, 65613>>, <<65616, 65629>>, <<65664, 65786>>, <<65856, 65908>>,
          <<66176, 66204>>, <<66208, 66256>>, <<66304, 66335>>, <<66349, 66378>>,
          <<66384, 66421>>, <<66432, 66461>>, <<66464, 66499>>, <<66504, 66511>>,
          <<66513, 66517>>, <<66560, 66717>>, <<66736, 66771>>, <<66776, 66811>>,
          <<66816, 66855>>, <<66864, 66915>>, <<66928, 66938>>, <<66940, 66954>>,
          <<66956, 66962>>, <<66964, 66965>>, <<66967, 66977>>, <<66979, 66993>>,
          <<66995, 67001>>, <<67003, 67004>>, <<67072, 67382>>, <<67392, 67413>>,
          <<67424, 67431>>, <<67584, 67589>>, <<67592, 67592>>, <<67594, 67637>>,
          <<67639, 67640>>, <<67644, 67644>>, <<67647, 67669>>, <<67680, 67702>>,
          <<67712, 67742>>, <<67808, 67826>>, <<67828, 67829>>, <<67840, 67861>>,
          <<67872, 67897>>, <<67968, 68023>>, <<68030, 68031>>, <<68096, 68096>>,
          <<68112, 68115>>, <<68117, 68119>>, <<68121, 68149>>, <<68192, 68220>>,
          <<68224, 68252>>, <<68288, 68295>>, <<68297, 68324>>, <<68352, 68405>>,
          <<68416, 68437>>, <<68448, 68466>>, <<68480, 68497>>, <<68608, 68680>>,
          <<68736, 68786>>, <<68800, 68850>>, <<68864, 68899>>, <<69248, 69289>>,
          <<69296, 69297>>, <<69376, 69404>>, <<69415, 69415>>, <<69424, 69445>>,
          <<69488, 69505>>, <<69552, 69572>>, <<69600, 69622>>, <<69635, 69687>>,
          <<69745, 69746>>, <<69749, 69749>>, <<69763, 69807>>, <<69840, 69864>>,
          <<69891, 69926>>, <<69956, 69956>>, <<69959, 69959>>, <<69968, 70002>>,
          <<70006, 70006>>, <<70019, 70066>>, <<70081, 70084>>, <<70106, 70106>>,
          <<70108, 70108>>, <<70144, 70161>>, <<70163, 70187>>, <<70272, 70278>>,
          <<70280, 70280>>, <<70282, 70285>>, <<70287, 70301>>, <<70303, 70312>>,
          <<70320, 70366>>, <<70405, 70412>>, <<70415, 70416>>, <<70419, 70440>>,
          <<70442, 70448>>, <<70450, 70451>>, <<70453, 70457>>, <<70461, 70461>>,
          <<70480, 70480>>, <<70493, 70497>>, <<70656, 70708>>, <<70727, 70730>>,
          <<70751, 70753>>, <<70784, 70831>>, <<70852, 70853>>, <<70855, 70855>>,
          <<71040, 71086>>, <<71128, 71131>>, <<71168, 71215>>, <<71236, 71236>>,
          <<71296, 71338>>, <<71352, 71352>>, <<71424, 71450>>, <<71488, 71494>>,
          <<71680, 71723>>, <<71840, 71903>>, <<71935, 71942>>, <<71945, 71945>>,
          <<71948, 71955>>, <<71957, 71958>>, <<71960, 71983>>, <<71999, 71999>>,
          <<72001, 72001>>, <<72096, 72103>>, <<72106, 72144>>, <<72161, 72161>>,
          <<72163, 72163>>, <<72192, 72192>>, <<72203, 72242>>, <<72250, 72250>>,
          <<72272, 72272>>, <<72284, 72329>>, <<72349, 72349>>, <<72368, 72440>>,
          <<72704, 72712>>, <<72714, 72750>>, <<72768, 72768>>, <<72818, 72847>>,
          <<72960, 72966>>, <<72968, 72969>>, <<72971, 73008>>, <<73030, 73030>>,
          <<73056, 73061>>, <<73063, 73064>>, <<73066, 73097>>, <<73112, 73112>>,
          <<73440, 73458>>, <<73648, 73648>>, <<73728, 74649>>, <<74752, 74862>>,
          <<74880, 75075>>, <<77712, 77808>>, <<77824, 78894>>, <<82944, 83526>>,
          <<92160, 92728>>, <<92736, 92766>>, <<92784, 92862>>, <<92880, 92909>>,
          <<92928, 92975>>, <<93027, 93047>>, <<93053, 93071>>, <<93760, 93823>>,
          <<93952, 94026>>, <<94032, 94032>>, <<94208, 100343>>,
          <<100352, 101589>>, <<101632, 101640>>, <<110592, 110882>>,
          <<110928, 110930>>, <<110948, 110951>>, <<110960, 111355>>,
          <<113664, 113770>>, <<113776, 113788>>, <<113792, 113800>>,
          <<113808, 113817>>, <<119808, 119892>>, <<119894, 119964>>,
          <<119966, 119967>>, <<119970, 119970>>, <<119973, 119974>>,
          <<119977, 119980>>, <<119982, 119993>>, <<119995, 119995>>,
          <<119997, 120003>>, <<120005, 120069>>, <<120071, 120074>>,
          <<120077, 120084>>, <<120086, 120092>>, <<120094, 120121>>,
          <<120123, 120126>>, <<120128, 120132>>, <<120134, 120134>>,
          <<120138, 120144>>, <<120146, 120485>>, <<120488, 120512>>,
          <<120514, 120538>>, <<120540, 120570>>, <<120572, 120596>>,
          <<120598, 120628>>, <<120630, 120654>>, <<120656, 120686>>,
          <<120688, 120712>>, <<120714, 120744>>, <<120746, 120770>>,
          <<120772, 120779>>, <<122624, 122654>>, <<123136, 123180>>,
          <<123214, 123214>>, <<123536, 123565>>, <<123584, 123627>>,
          <<124896, 124902>>, <<124904, 124907>>, <<124909, 124910>>,
          <<124912, 124926>>, <<124928, 125124>>, <<125184, 125251>>,
          <<126464, 126467>>, <<126469, 126495>>, <<126497, 126498>>,
          <<126500, 126500>>, <<126503, 126503>>, <<126505, 126514>>,
          <<126516, 126519>>, <<126521, 126521>>, <<126523, 126523>>,
          <<126530, 126530>>, <<126535, 126535>>, <<126537, 126537>>,
          <<126539, 126539>>, <<126541, 126543>>, <<126545, 126546>>,
          <<126548, 126548>>, <<126551, 126551>>, <<126553, 126553>>,
          <<126555, 126555>>, <<126557, 126557>>, <<126559, 126559>>,
          <<126561, 126562>>, <<126564, 126564>>, <<126567, 126570>>,
          <<126572, 126578>>, <<126580, 126583>>, <<126585, 126588>>,
          <<126590, 126590>>, <<126592, 126601>>, <<126603, 126619>>,
          <<126625, 126627>>, <<126629, 126633>>, <<126635, 126651>>,
          <<131072, 173791>>, <<173824, 177976>>, <<177984, 178205>>,
          <<178208, 183969>>, <<183984, 191456>>, <<194560, 195101>>,
          <<196608, 201546>>>>
    IN  UNION {r[1]..r[2] : r \in Range(ranges)}

Nd ==
    LET ranges ==
        <<<<48, 57>>, <<1632, 1641>>, <<1776, 1785>>, <<1984, 1993>>,
          <<2406, 2415>>, <<2534, 2543>>, <<2662, 2671>>, <<2790, 2799>>,
          <<2918, 2927>>, <<3046, 3055>>, <<3174, 3183>>, <<3302, 3311>>,
          <<3430, 3439>>, <<3558, 3567>>, <<3664, 3673>>, <<3792, 3801>>,
          <<3872, 3881>>, <<4160, 4169>>, <<4240, 4249>>, <<6112, 6121>>,
          <<6160, 6169>>, <<6470, 6479>>, <<6608, 6617>>, <<6784, 6793>>,
          <<6800, 6809>>, <<6992, 7001>>, <<7088, 7097>>, <<7232, 7241>>,
          <<7248, 7257>>, <<42528, 42537>>, <<43216, 43225>>, <<43264, 43273>>,
          <<43472, 43481>>, <<43504, 43513>>, <<43600, 43609>>, <<44016, 44025>>,
          <<65296, 65305>>, <<66720, 66729>>, <<68912, 68921>>, <<69734, 69743>>,
          <<69872, 69881>>, <<69942, 69951>>, <<70096, 70105>>, <<70384, 70393>>,
          <<70736, 70745>>, <<70864, 70873>>, <<71248, 71257>>, <<71360, 71369>>,
          <<71472, 71481>>, <<71904, 71913>>, <<72016, 72025>>, <<72784, 72793>>,
          <<73040, 73049>>, <<73120, 73129>>, <<92768, 92777>>, <<92864, 92873>>,
          <<93008, 93017>>, <<120782, 120831>>, <<123200, 123209>>,
          <<123632, 123641>>, <<125264, 125273>>, <<130032, 130041>>>>
    IN  UNION {r[1]..r[2] : r \in Range(ranges)}

NAME_CATEGORIES ==
    LET ranges ==
        <<<<688, 705>>, <<710, 721>>, <<736, 740>>, <<748, 748>>, <<750, 750>>,
          <<768, 879>>, <<884, 884>>, <<890, 890>>, <<1155, 1161>>, <<1369, 1369>>,
          <<1425, 1469>>, <<1471, 1471>>, <<1473, 1474>>, <<1476, 1477>>,
          <<1479, 1479>>, <<1552, 1562>>, <<1600, 1600>>, <<1611, 1631>>,
          <<1648, 1648>>, <<1750, 1756>>, <<1759, 1768>>, <<1770, 1773>>,
          <<1809, 1809>>, <<1840, 1866>>, <<1958, 1968>>, <<2027, 2037>>,
          <<2042, 2042>>, <<2045, 2045>>, <<2070, 2093>>, <<2137, 2139>>,
          <<2200, 2207>>, <<2249, 2273>>, <<2275, 2307>>, <<2362, 2364>>,
          <<2366, 2383>>, <<2385, 2391>>, <<2402, 2403>>, <<2417, 2417>>,
          <<2433, 2435>>, <<2492, 2492>>, <<2494, 2500>>, <<2503, 2504>>,
          <<2507, 2509>>, <<2519, 2519>>, <<2530, 2531>>, <<2558, 2558>>,
          <<2561, 2563>>, <<2620, 2620>>, <<2622, 2626>>, <<2631, 2632>>,
          <<2635, 2637>>, <<2641, 2641>>, <<2672, 2673>>, <<2677, 2677>>,
          <<2689, 2691>>, <<2748, 2748>>, <<2750, 2757>>, <<2759, 2761>>,
          <<2763, 2765>>, <<2786, 2787>>, <<2810, 2815>>, <<2817, 2819>>,
          <<2876, 2876>>, <<2878, 2884>>, <<2887, 2888>>, <<2891, 2893>>,
          <<2901, 2903>>, <<2914, 2915>>, <<2946, 2946>>, <<3006, 3010>>,
          <<3014, 3016>>, <<3018, 3021>>, <<3031, 3031>>, <<3072, 3076>>,
          <<3132, 3132>>, <<3134, 3140>>, <<3142, 3144>>, <<3146, 3149>>,
          <<3157, 3158>>, <<3170, 3171>>, <<3201, 3203>>, <<3260, 3260>>,
          <<3262, 3268>>, <<3270, 3272>>, <<3274, 3277>>, <<3285, 3286>>,
          <<3298, 3299>>, <<3328, 3331>>, <<3387, 3388>>, <<3390, 3396>>,
          <<3398, 3400>>, <<3402, 3405>>, <<3415, 3415>>, <<3426, 3427>>,
          <<3457, 3459>>, <<3530, 3530>>, <<3535, 3540>>, <<3542, 3542>>,
          <<3544, 3551>>, <<3570, 3571>>, <<3633, 3633>>, <<3636, 3642>>,
          <<3654, 3662>>, <<3761, 3761>>, <<3764, 3772>>, <<3782, 3782>>,
          <<3784, 3789>>, <<3864, 3865>>, <<3893, 3893>>, <<3895, 3895>>,
          <<3897, 3897>>, <<3902, 3903>>, <<3953, 3972>>, <<3974, 3975>>,
          <<3981, 3991>>, <<3993, 4028>>, <<4038, 4038>>, <<4139, 4158>>,
          <<4182, 4185>>, <<4190, 4192>>, <<4194, 4196>>, <<4199, 4205>>,
          <<4209, 4212>>, <<4226, 4237>>, <<4239, 4239>>, <<4250, 4253>>,
          <<4348, 4348>>, <<4957, 4959>>, <<5906, 5909>>, <<5938, 5940>>,
          <<5970, 5971>>, <<6002, 6003>>, <<6068, 6099>>, <<6103, 6103>>,
          <<6109, 6109>>, <<6155, 6157>>, <<6159, 6159>>, <<6211, 6211>>,
          <<6277, 6278>>, <<6313, 6313>>, <<6432, 6443>>, <<6448, 6459>>,
          <<6679, 6683>>, <<6741, 6750>>, <<6752, 6780>>, <<6783, 6783>>,
          <<6823, 6823>>, <<6832, 6862>>, <<6912, 6916>>, <<6964, 6980>>,
          <<7019, 7027>>, <<7040, 7042>>, <<7073, 7085>>, <<7142, 7155>>,
          <<7204, 7223>>, <<7288, 7293>>, <<7376, 7378>>, <<7380, 7400>>,
          <<7405, 7405>>, <<7412, 7412>>, <<7415, 7417>>, <<7468, 7530>>,
          <<7544, 7544>>, <<7579, 7679>>, <<8305, 8305>>, <<8319, 8319>>,
          <<8336, 8348>>, <<8400, 8432>>, <<11388, 11389>>, <<11503, 11505>>,
          <<11631, 11631>>, <<11647, 11647>>, <<11744, 11775>>, <<11823, 11823>>,
          <<12293, 12293>>, <<12330, 12335>>, <<12337, 12341>>, <<12347, 12347>>,
          <<12441, 12442>>, <<12445, 12446>>, <<12540, 12542>>, <<40981, 40981>>,
          <<42232, 42237>>, <<42508, 42508>>, <<42607, 42610>>, <<42612, 42621>>,
          <<42623, 42623>>, <<42652, 42655>>, <<42736, 42737>>, <<42775, 42783>>,
          <<42864, 42864>>, <<42888, 42888>>, <<42994, 42996>>, <<43000, 43001>>,
          <<43010, 43010>>, <<43014, 43014>>, <<43019, 43019>>, <<43043, 43047>>,
          <<43052, 43052>>, <<43136, 43137>>, <<43188, 43205>>, <<43232, 43249>>,
          <<43263, 43263>>, <<43302, 43309>>, <<43335, 43347>>, <<43392, 43395>>,
          <<43443, 43456>>, <<43471, 43471>>, <<43493, 43494>>, <<43561, 43574>>,
          <<43587, 43587>>, <<43596, 43597>>, <<43632, 43632>>, <<43643, 43645>>,
          <<43696, 43696>>, <<43698, 43700>>, <<43703, 43704>>, <<43710, 43711>>,
          <<43713, 43713>>, <<43741, 43741>>, <<43755, 43759>>, <<43763, 43766>>,
          <<43868, 43871>>, <<43881, 43881>>, <<44003, 44010>>, <<44012, 44013>>,
          <<64286, 64286>>, <<65024, 65039>>, <<65056, 65071>>, <<65392, 65392>>,
          <<65438, 65439>>, <<66045, 66045>>, <<66272, 66272>>, <<66422, 66426>>,
          <<67456, 67461>>, <<67463, 67504>>, <<67506, 67514>>, <<68097, 68099>>,
          <<68101, 68102>>, <<68108, 68111>>, <<68152, 68154>>, <<68159, 68159>>,
          <<68325, 68326>>, <<68900, 68903>>, <<69291, 69292>>, <<69446, 69456>>,
          <<69506, 69509>>, <<69632, 69634>>, <<69688, 69702>>, <<69744, 69744>>,
          <<69747, 69748>>, <<69759, 69762>>, <<69808, 69818>>, <<69826, 69826>>,
          <<69888, 69890>>, <<69927, 69940>>, <<69957, 69958>>, <<70003, 70003>>,
          <<70016, 70018>>, <<70067, 70080>>, <<70089, 70092>>, <<70094, 70095>>,
          <<70188, 70199>>, <<70206, 70206>>, <<70367, 70378>>, <<70400, 70403>>,
          <<70459, 70460>>, <<70462, 70468>>, <<70471, 70472>>, <<70475, 70477>>,
          <<70487, 70487>>, <<70498, 70499>>, <<70502, 70508>>, <<70512, 70516>>,
          <<70709, 70726>>, <<70750, 70750>>, <<70832, 70851>>, <<71087, 71093>>,
          <<71096, 71104>>, <<71132, 71133>>, <<71216, 71232>>, <<71339, 71351>>,
          <<71453, 71467>>, <<71724, 71738>>, <<71984, 71989>>, <<71991, 71992>>,
          <<71995, 71998>>, <<72000, 72000>>, <<72002, 72003>>, <<72145, 72151>>,
          <<72154, 72160>>, <<72164, 72164>>, <<72193, 72202>>, <<72243, 72249>>,
          <<72251, 72254>>, <<72263, 72263>>, <<72273, 72283>>, <<72330, 72345>>,
          <<72751, 72758>>, <<72760, 72767>>, <<72850, 72871>>, <<72873, 72886>>,
          <<73009, 73014>>, <<73018, 73018>>, <<73020, 73021>>, <<73023, 73029>>,
          <<73031, 73031>>, <<73098, 73102>>, <<73104, 73105>>, <<73107, 73111>>,
          <<73459, 73462>>, <<92912, 92916>>, <<92976, 92982>>, <<92992, 92995>>,
          <<94031, 94031>>, <<94033, 94087>>, <<94095, 94111>>, <<94176, 94177>>,
          <<94179, 94180>>, <<94192, 94193>>, <<110576, 110579>>,
          <<110581, 110587>>, <<110589, 110590>>, <<113821, 113822>>,
          <<118528, 118573>>, <<118576, 118598>>, <<119141, 119145>>,
          <<119149, 119154>>, <<119163, 119170>>, <<119173, 119179>>,
          <<119210, 119213>>, <<119362, 119364>>, <<121344, 121398>>,
          <<121403, 121452>>, <<121461, 121461>>, <<121476, 121476>>,
          <<121499, 121503>>, <<121505, 121519>>, <<122880, 122886>>,
          <<122888, 122904>>, <<122907, 122913>>, <<122915, 122916>>,
          <<122918, 122922>>, <<123184, 123197>>, <<123566, 123566>>,
          <<123628, 123631>>, <<125136, 125142>>, <<125252, 125259>>,
          <<917760, 917999>>>>
    IN  NAME_START_CATEGORIES \cup Nd \cup UNION {r[1]..r[2] : r \in Range(ranges)}

SPLIT_START_CATEGORIES == NAME_START_CATEGORIES \cup Nd

ALLOWED_NAME_CHARS == {183, 903, 45, 46, 95, 37, 40, 41}

\* rdflib.term._is_valid_uri(uri): none of the characters an IRI may not hold
is_valid_uri(u) == chars(u) \cap {"<", ">", "\"", " ", "{", "}", "|", "\\", "^"} = {}

\* rdflib.namespace.split_uri(uri, SPLIT_START_CATEGORIES), on the code
\* points cs of the text u: from the end of the text, the first character
\* that is neither a name character nor an allowed one stops the scan; the
\* text is cut before the first split-start character or underscore from
\* there on (the scan goes on at the start of the text when there is
\* none), and a cut that leaves no namespace, or no place to cut at,
\* raises ValueError
split_codes(u, cs) ==
    LET n == Len(cs)
        cant == [err |-> "ValueError: Can't split", ns |-> "", name |-> ""]
        \* the unit the j-th character starts at
        at(j) == j + Cardinality({k \in 1..(j - 1) : cs[k] >= 65536})
        cut(j) == IF j = 1 THEN cant
                  ELSE [err |-> "", ns |-> SubSeq(u, 1, at(j) - 1),
                        name |-> SubSeq(u, at(j), Len(u))]
        stops == {k \in 1..n : cs[k] \notin NAME_CATEGORIES /\ cs[k] \notin ALLOWED_NAME_CHARS}
        stop == CHOOSE k \in stops : \A k2 \in stops : k2 <= k
        starts(from) == {j \in from..n : cs[j] \in SPLIT_START_CATEGORIES \/ cs[j] = 95}
        least(js) == CHOOSE j \in js : \A j2 \in js : j <= j2
    IN  IF stops = {} THEN cant
        ELSE IF starts(stop) # {} THEN cut(least(starts(stop)))
        ELSE IF starts(1) # {} THEN cut(least(starts(1)))
        ELSE cant

split_uri(u) ==
    LET XMLNS == "http://www.w3.org/XML/1998/namespace"
    IN  IF textStartswith(u, XMLNS)
        THEN [err |-> "", ns |-> XMLNS, name |-> SubSeq(u, Len(XMLNS) + 1, Len(u))]
        ELSE split_codes(u, codes(u))

\* NamespaceManager.compute_qname(uri), given the text u of the term and
\* what split_uri makes of it: (prefix, namespace, name). A text that
\* cannot be split is its own namespace with an empty name when it is a
\* bound namespace, and raises otherwise: the text of a blank node or of a
\* literal without a character to split at. A namespace without a prefix
\* gets a generated one. (No bound namespace of the converter is the
\* beginning of another one's local names, so the longest bound namespace
\* is the one split_uri gives.)
qname_partition(u, parts) ==
    LET bound(ns) == \E p \in DOMAIN nsm : textOf(nsm[p]) = ns
        prefixOf(ns) == IF bound(ns)
                        THEN CHOOSE p \in DOMAIN nsm : textOf(nsm[p]) = ns
                        ELSE "ns1"
    IN  IF ~is_valid_uri(u)
        THEN [err |-> "ValueError: does not look like a valid URI", prefix |-> "",
              ns |-> "", name |-> ""]
        ELSE IF parts.err = ""
        THEN [err |-> "", prefix |-> prefixOf(parts.ns), ns |-> parts.ns,
              name |-> parts.name]
        ELSE IF bound(u)
        THEN [err |-> "", prefix |-> prefixOf(u), ns |-> u, name |-> ""]
        ELSE [err |-> parts.err, prefix |-> "", ns |-> "", name |-> ""]

compute_qname(uri) == qname_partition(textOf(strOf(uri)), split_uri(textOf(strOf(uri))))

\* compute_qname of every term of a graph
qnames(g) == [t \in {x[1] : x \in g} \cup {x[3] : x \in g} |-> compute_qname(t)]

\* SELECT DISTINCT ?o WHERE { ?s ?p ?o . ?s ?p2 ?o .
\*   FILTER(STR(?p) < STR(?p2) && (?p != rdfs:domain && ?p2 != rdfs:range)) }
\* with ?s bound to s: the IRI strings of the two predicates are compared
\* code point by code point
q2(g, s) ==
    LET strLess(p, p2) == textLess(textOf(strOf(p)), textOf(strOf(p2)))
    IN
    {t[3] : t \in {t \in g : /\ t[1] = s
                             /\ \E t2 \in g : /\ t2[1] = s /\ t2[3] = t[3]
                                              /\ t[2] # t2[2]
                                              /\ strLess(t[2], t2[2])
                                              /\ t[2] # RDFS_domain
                                              /\ t2[2] # RDFS_range}}

\* the body of the validation loop for one subject of a managed namespace,
\* given the qnames of the terms: the errors it may end with ("" for
\* none; of several objects that raise, the one the query or the graph
\* gives first decides), the records logged for certain and the records
\* whose logging depends on the order a query returns its results in
validateSubject(g, s, version, qname) ==
    LET name == qname[s].name
        \* name[:1]
        initial == textPrefix(name, 1)
        warn(msg, about) == logged("WARNING", msg, about)
        types == objects(g, s, RDF_type)
        values == {t \in g : t[2] = s}
        missingLabels ==
            IF objects(g, s, RDFS_label) = {}
            THEN {warn("is missing labels!", <<s>>)} ELSE {}
        \* str(o).startswith(str(self.URIRef)) and not any(graph.triples((o, None, None)))
        dangling == {t[3] : t \in {t \in outgoing(g, s) :
                        /\ textStartswith(textOf(strOf(t[3])), textOf(BFFI_NS))
                        /\ outgoing(g, t[3]) = {}}}
        ambiguousObjects == q2(g, s)
        \* nsm.curie(o) raises for these; the loop comes to one of them first
        raising(os) == {o \in os : qname[o].err # ""}
        raised(os) == {qname[o].err : o \in raising(os)}
        ambiguous(os) == {warn("has more than 1 relationship with", <<s, o>>) : o \in os}
        missing(os) == {warn("object is missing triples!", <<s, o>>) : o \in os}
        isNew(m) == textEndswith(textOf(strOf(m)), " (New)")
        rest ==
            (IF (\A m \in objects(g, s, DCTERMS_modified) : ~isNew(m)) /\ version # <<>>
             THEN {warn("is missing (New) timestamp!", <<s>>)} ELSE {})
            \cup
            (IF <<s, OWL_deprecated, TRUE_LITERAL>> \in g /\ \E t \in g : t[3] = s
             THEN {warn("is deprecated but is in object position!", <<s>>)} ELSE {})
            \cup
            (IF types \cap {OWL_Class, OWL_DeprecatedClass} # {}
             THEN (IF islower(initial)
                   THEN {warn("is expected to start with uppercase!", <<s>>)} ELSE {})
             ELSE (IF isupper(initial)
                   THEN {warn("is expected to start with lowercase!", <<s>>)} ELSE {}))
            \cup
            (IF OWL_ObjectProperty \in types /\ \E t \in values : isLiteral(t[3])
             THEN {warn("may not have literal value object!", <<s>>)} ELSE {})
            \cup
            (IF OWL_DatatypeProperty \in types
                /\ objects(g, s, RDFS_range) # {RDFS_Literal}
             THEN {warn("should have rdfs:Literal as range!", <<s>>)} ELSE {})
            \cup
            (IF OWL_DatatypeProperty \in types /\ \E t \in values : ~isLiteral(t[3])
             THEN {warn("may not have non-literal value object!", <<s>>)} ELSE {})
            \cup
            (IF URIRef(OWL, "AnnotationProperty") \in types
                /\ objects(g, s, RDFS_range) \cup objects(g, s, RDFS_domain) # {}
             THEN {warn("is not allowed to have property axioms!", <<s>>)} ELSE {})
    IN  IF raising(ambiguousObjects) # {}
        THEN [errs |-> raised(ambiguousObjects),
              log |-> missingLabels,
              maybe |-> ambiguous(ambiguousObjects \ raising(ambiguousObjects))]
        ELSE IF raising(dangling) # {}
        THEN [errs |-> raised(dangling),
              log |-> missingLabels \cup ambiguous(ambiguousObjects),
              maybe |-> missing(dangling \ raising(dangling))]
        ELSE [errs |-> {""},
              log |-> missingLabels \cup ambiguous(ambiguousObjects)
                      \cup missing(dangling) \cup rest,
              maybe |-> {}]

\* _validateOntology(s): str(graph.value(s, modified))[:10] is compared as a
\* string with str(graph.value(s, issued)); a missing value reads "None", and
\* of several values any one may be taken
modifiedBeforeIssued(pairs) == {x \in pairs : textLess(textPrefix(x[1], 10), x[2])}

ontologyFindings(s, pairs, before) ==
    LET finding == {logged("WARNING", "is modified before issued!", <<s>>)}
    IN  [errs |-> {""},
         log |-> IF before = pairs THEN finding ELSE {},
         maybe |-> IF before # {} THEN finding ELSE {}]

validateOntology(g, s) ==
    LET value(p) == IF objects(g, s, p) = {} THEN {"None"}
                    ELSE {textOf(strOf(o)) : o \in objects(g, s, p)}
        pairs == value(DCTERMS_modified) \X value(URIRef(DCTERMS, "issued"))
    IN  ontologyFindings(s, pairs, modifiedBeforeIssued(pairs))

\* the body of the loop of validate() for subject s: a subject that is no
\* URIRef (a blank node, a literal) and a subject outside the two managed
\* namespaces are passed over, and the ontology node gets its own check
validateTerm(g, s, version, qname) ==
    IF ~isIRI(s)
    THEN [errs |-> {""}, log |-> {}, maybe |-> {}]
    ELSE IF qname[s].err # ""
    THEN [errs |-> {qname[s].err}, log |-> {}, maybe |-> {}]
    ELSE IF qname[s].ns \notin {textOf(BFFI_NS), textOf(BFFIMETA_NS)}
    THEN [errs |-> {""}, log |-> {}, maybe |-> {}]
    ELSE IF <<s, RDF_type, OWL_Ontology>> \in g
    THEN validateOntology(g, s)
    ELSE validateSubject(g, s, version, qname)

\* the loop of validate() over subjects whose sort keys are key and whose
\* loop bodies give result: the subjects are visited in the order of their
\* keys (subjects with the same key in either order), and the first
\* exception ends the loop
validateLoop(subjects, key, result) ==
    LET failing == {s \in subjects : result[s].errs # {""}}
        \* the failing subjects no other failing subject comes before
        firsts == {s \in failing : \A s2 \in failing : ~codesLess(key[s2], key[s])}
        first == CHOOSE s \in firsts : TRUE
        before == IF failing = {} THEN subjects
                  ELSE {s \in subjects : codesLess(key[s], key[first])}
        tied == IF failing = {} THEN {}
                ELSE {s \in subjects : key[s] = key[first]}
        certain == IF Cardinality(tied) = 1 THEN tied ELSE {}
    IN  [errs |-> IF failing = {} THEN {""} ELSE UNION {result[s].errs : s \in firsts},
         log |-> UNION {result[s].log : s \in before \cup certain},
         maybe |-> UNION {result[s].maybe : s \in before \cup tied}
                   \cup UNION {result[s].log : s \in tied \ certain}]

\* sorted(self.graph.subjects(unique=True), key=str.casefold)
casefoldKeys(subjects) == [s \in subjects |-> casefold(textOf(strOf(s)))]

\* validate(): the loop over the subjects of the graph
validateSubjects(g, version, qname) ==
    validateLoop({t[1] : t \in g},
                 casefoldKeys({t[1] : t \in g}),
                 [s \in {t[1] : t \in g} |-> validateTerm(g, s, version, qname)])

validate(g, version) == validateSubjects(g, version, qnames(g))

\* validate(): the findings are logged, the graph is not written to, and an
\* exception raised while a finding is formatted ends the run
Validate ==
    /\ pc = "validate"
    /\ LET res == validate(graph, args.version)
       IN  /\ \E seen \in SUBSET res.maybe : log' = log \cup res.log \cup seen
           /\ \E e \in res.errs :
                IF e # ""
                THEN abort(e)
                ELSE pc' = "serialize" /\ UNCHANGED err
    /\ UNCHANGED <<args, versioning_dates, graph, cnotes_graph, nb, row, rowStart, prevRow,
                   nrows, cached, output>>

\* serialize()
Serialize ==
    /\ pc = "serialize"
    /\ output' = output \cup {"ttl"}
    /\ pc' = IF args.write_rdfxml THEN "rdfxml" ELSE "done"
    /\ UNCHANGED <<args, versioning_dates, graph, cnotes_graph, nb, row, rowStart, prevRow,
                   nrows, cached, err, log>>

\* if self.write_rdfxml: serialize as RDF/XML, too
WriteRdfXml ==
    /\ pc = "rdfxml"
    /\ output' = output \cup {"rdf"}
    /\ pc' = "done"
    /\ UNCHANGED <<args, versioning_dates, graph, cnotes_graph, nb, row, rowStart, prevRow,
                   nrows, cached, err, log>>

(***************************************************************************)
(* Inputs                                                                  *)
(***************************************************************************)
\* a row of the CSV file: the cells given, every other cell empty
Row(cells) == cells @@ EmptyRow

PUBLISHED == <<"published">>
PLANNED == <<"planned">>
DEPRECATED == <<"deprecated">>
CLASS == <<"owl", ":", "Class">>
OBJECT_PROPERTY == <<"owl", ":", "ObjectProperty">>
SYMMETRIC_PROPERTY == <<"owl", ":", "SymmetricProperty">>
DATATYPE_PROPERTY == <<"owl", ":", "DatatypeProperty">>
ID_a == <<"bffi", ":", "a">>
ID_B == <<"bffi", ":", "B">>
ID_c == <<"bffi", ":", "c">>
BF_Work == <<"bf", ":", "Work">>
BF_Agent == <<"bf", ":", "Agent">>
LITERAL == <<"rdfs", ":", "Literal">>
UNION_Work_Agent == <<"[">> \o BF_Work \o <<",", " ">> \o BF_Agent \o <<"]">>

\* a row of the releases file
Release(version, issued, en, fi) ==
    [version |-> version, issued |-> <<issued>>,
     description |-> [l \in {"en", "fi"} |-> IF l = "en" THEN en ELSE fi]]

\* the releases file: version 0.5.0 issued 2024-03-01, 1.0.0 issued
\* 2024-05-01 and described in English
RELEASES ==
    <<Release(<<"0", ".", "5", ".", "0">>, "2024-03-01", <<>>, <<>>),
      Release(<<"1", ".", "0", ".", "0">>, " 2024-05-01", <<"First", " ", "release", ".">>, <<>>)>>

\* the command line of a run that builds version 1.0.0 with a releases
\* file and without metadata overlay or change notes
ARGS ==
    [version |-> <<"1", ".", "0", ".", "0">>, prior_version |-> <<>>,
     publishing_url |-> <<"http", ":", "//schema.finto.fi/bffi/">>,
     releases_path |-> TRUE, releases |-> RELEASES,
     change_notes_path |-> FALSE, notes |-> <<>>, write_rdfxml |-> TRUE]

\* the rows a CSV file may hold (specification Spec)
StatusCells == {PUBLISHED, DEPRECATED}

TypeRangeCells ==
    {<<CLASS, <<>>, <<>>>>,
     <<OBJECT_PROPERTY, <<>>, BF_Work>>,
     <<OBJECT_PROPERTY, BF_Work, UNION_Work_Agent>>,
     <<OBJECT_PROPERTY, UNION_Work_Agent, <<>>>>,
     <<DATATYPE_PROPERTY, <<>>, <<>>>>,
     <<DATATYPE_PROPERTY, LITERAL, BF_Work>>,
     <<DATATYPE_PROPERTY, UNION_Work_Agent, <<>>>>}

Rows_a ==
    {Row([id |-> ID_a, status |-> st, type |-> tr[1], range |-> tr[2],
          domain |-> tr[3], label_en |-> <<"a">>,
          subClassOf |-> IF tr[1] = CLASS THEN BF_Work \o <<",", " ">> \o BF_Agent
                         ELSE <<>>,
          inverseOf |-> IF tr[2] = BF_Work THEN ID_B ELSE <<>>,
          replacedBy |-> IF tr[1] = CLASS THEN ID_B \o <<",">> \o ID_c ELSE <<>>]) :
       st \in StatusCells, tr \in TypeRangeCells}

Rows_other ==
    {Row([id |-> ID_B, status |-> PUBLISHED, type |-> SYMMETRIC_PROPERTY,
          inverseOf |-> ID_a, julkaisuversio |-> <<"v", "1", ".", "0">>,
          map_bf |-> <<"owl", ":", "equivalentProperty">>,
          bibframeURI |-> BF_NS \o <<"relatedTo">>,
          map_rda |-> <<"bffi-meta", ":", "closeMatch">>,
          rdaURI |-> <<"http", ":", "//rdaregistry.info/Elements/a/", "P50001">>]),
     Row([id |-> ID_B, status |-> <<" ", "planned">>, type |-> CLASS,
          disjointWith |-> ID_a, label_fi |-> <<"N/A">>,
          julkaisuversio |-> <<"0", ".", "3">>]),
     Row([id |-> ID_a, status |-> PUBLISHED, type |-> DATATYPE_PROPERTY,
          range |-> BF_Work]),
     Row([id |-> ID_a, status |-> DEPRECATED, type |-> <<"#N/A">>]),
     Row([id |-> ID_a, status |-> PUBLISHED, type |-> <<"banana">>]),
     Row([id |-> <<"zz", ":", "a">>, status |-> <<"draft">>, type |-> <<"banana">>]),
     Row([id |-> ID_a, status |-> <<"draft">>, type |-> OBJECT_PROPERTY,
          range |-> UNION_Work_Agent])}

Rows == Rows_a \cup Rows_other

\* the longest CSV file of specification Spec, in rows
MaxRows == 3

Init ==
    /\ pc = "releases"
    /\ args = ARGS
    /\ versioning_dates = {}
    /\ graph = {}
    /\ cnotes_graph = {}
    /\ nb = 0
    /\ row = EmptyRow
    /\ rowStart = {}
    /\ prevRow = EmptyRow
    /\ nrows = 0
    /\ cached = {}
    /\ err = ""
    /\ output = {}
    /\ log = {}

Next ==
    \/ LoadReleases
    \/ InjectVersionMetadata({NOON})
    \/ ProcessChangeNotes
    \/ ReadRow(Rows, nrows < MaxRows)
    \/ DomainRangeCols
    \/ TypeCol
    \/ MappingCols
    \/ RelationCols
    \/ EndRow
    \/ EndOfFile
    \/ AttachChangeNotes
    \/ FetchRelations
    \/ Validate
    \/ Serialize
    \/ WriteRdfXml

Spec == Init /\ [][Next]_vars

(***************************************************************************)
(* Specification SpecRun: whole runs over short CSV files, with and        *)
(* without change notes, a metadata overlay and a local LoC copy.          *)
(***************************************************************************)
RunRows ==
    {Row([id |-> ID_a, status |-> PUBLISHED, type |-> CLASS,
          map_bf |-> <<"owl", ":", "equivalentClass">>,
          bibframeURI |-> BF_NS \o <<"Work">>]),
     Row([id |-> ID_B, status |-> PUBLISHED, type |-> CLASS,
          domain |-> <<"[">> \o BF_Work \o <<",">> \o BF_Agent]),
     Row([id |-> ID_a, status |-> PLANNED, type |-> CLASS,
          subClassOf |-> <<"zz", ":", "Q">>]),
     Row([id |-> ID_a, status |-> PUBLISHED, type |-> <<"banana">>]),
     Row([id |-> ID_a, status |-> PUBLISHED, type |-> OBJECT_PROPERTY,
          map_bf |-> <<"bffi-meta", ":", "narrowMatch">>]),
     Row([id |-> ID_a, status |-> PUBLISHED, type |-> OBJECT_PROPERTY,
          map_rda |-> <<"owl", ":", "equivalentClass">>]),
     Row([id |-> ID_a, status |-> DEPRECATED, type |-> DATATYPE_PROPERTY,
          range |-> BF_Work]),
     Row([id |-> <<"bf", ":", "a">>, status |-> PUBLISHED, type |-> CLASS]),
     Row([id |-> ID_a, status |-> <<"draft">>, type |-> <<"banana">>])}

RunNotes ==
    {<<[id |-> ID_a, version |-> <<"v", "1", ".", "0", ".", "0">>,
        changeNote |-> <<"Label changed">>]>>,
     <<[id |-> <<"zz", ":", "a">>, version |-> <<"1", ".", "0", ".", "0">>,
        changeNote |-> <<"Label changed">>]>>,
     <<[id |-> ID_a, version |-> <<"1", ".", "0">>,
        changeNote |-> <<"Label changed">>]>>}

\* a metadata overlay: the ontology node, its description and its relation
\* to BIBFRAME
METADATA ==
    {<<bffiURIRef, RDF_type, OWL_Ontology>>,
     <<bffiURIRef, DCTERMS_description, Literal(<<"Data", " ", "model", ".">>, "en")>>,
     <<bffiURIRef, DCTERMS_relation, <<"iri">> \o BF_NS>>}

\* a metadata overlay that relates the ontology node to BFLC as well, and
\* does not type it
BFLC_METADATA ==
    {<<bffiURIRef, DCTERMS_relation, <<"iri">> \o BF_NS>>,
     <<bffiURIRef, DCTERMS_relation, <<"iri">> \o BFLC_NS>>}

\* a metadata overlay that carries the version metadata of an earlier build
OLD_METADATA ==
    METADATA \cup
    {<<bffiURIRef, DCTERMS_modified, Literal(<<"2023-01-01", "T00:00:00Z">>, "xsd:dateTime")>>,
     <<bffiURIRef, DCTERMS_modified, Literal(<<"2022-01-01">>, "")>>,
     <<bffiURIRef, URIRef(DCTERMS, "issued"), Literal(<<"2023-01-01">>, "xsd:date")>>,
     <<bffiURIRef, URIRef(OWL, "versionIRI"), <<"iri", "http", ":", "//schema.finto.fi/bffi/", "0-4-0", "/">>>>,
     <<bffiURIRef, URIRef(OWL, "versionIRI"), <<"iri", "http", ":", "//example.org/old">>>>,
     <<bffiURIRef, URIRef(OWL, "versionInfo"), Literal(<<"0", ".", "4", ".", "0">>, "")>>,
     <<bffiURIRef, URIRef(OWL, "priorVersion"), <<"iri", "http", ":", "//schema.finto.fi/bffi/", "0-3-0", "/">>>>}

\* the longest CSV file of specification SpecRun, in rows
MaxRunRows == 2

InitRun ==
    /\ pc = "releases"
    /\ args \in [version : {<<>>, <<"1", ".", "0", ".", "0">>},
                 prior_version : {<<>>, <<"0", ".", "5", ".", "0">>},
                 publishing_url : {<<"http", ":", "//schema.finto.fi/bffi/">>},
                 releases_path : {TRUE},
                 releases : {RELEASES},
                 change_notes_path : BOOLEAN,
                 notes : RunNotes,
                 write_rdfxml : BOOLEAN]
    /\ versioning_dates = {}
    /\ graph \in {{}, METADATA, OLD_METADATA, BFLC_METADATA}
    /\ cnotes_graph = {}
    /\ nb = 0
    /\ row = EmptyRow
    /\ rowStart = {}
    /\ prevRow = EmptyRow
    /\ nrows = 0
    /\ cached \in {{}, {<<"bibframe.ttl", BF_GRAPH>>}}
    /\ err = ""
    /\ output = {}
    /\ log = {}

NextRun ==
    \/ LoadReleases
    \/ InjectVersionMetadata(Clock)
    \/ ProcessChangeNotes
    \/ ReadRow(RunRows, nrows < MaxRunRows)
    \/ DomainRangeCols
    \/ TypeCol
    \/ MappingCols
    \/ RelationCols
    \/ EndRow
    \/ EndOfFile
    \/ AttachChangeNotes
    \/ FetchRelations
    \/ Validate
    \/ Serialize
    \/ WriteRdfXml

SpecRun == InitRun /\ [][NextRun]_vars

(***************************************************************************)
(* Specification SpecUnion: bracketed domain and range cells generated     *)
(* from a pool of items, handled after a row that leaves union nodes in    *)
(* the graph.                                                              *)
(***************************************************************************)
\* the items a generated cell is joined from: prefixed names with and
\* without padding, an absolute IRI, blank items, a stray bracket, an
\* unbound prefix
UnionItems ==
    {BF_Work,
     <<" ">> \o BF_Agent,
     <<"{">> \o ID_c \o <<"}", " ">>,
     <<"http", ":", "//example.org/", "X">>,
     <<>>,
     <<" ">>,
     <<"]">>,
     <<"zz", ":", "x">>}

\* the most items of a generated cell
MaxItems == 3

\* ",".join(items)
RECURSIVE join(_)
join(items) ==
    IF items = <<>> THEN <<>>
    ELSE IF Len(items) = 1 THEN items[1]
    ELSE items[1] \o <<",">> \o join(Tail(items))

\* "[" + ",".join(items) + close, for closed and unclosed cells
UnionCells ==
    {<<"[">> \o join(items) \o close :
        items \in UNION {[1..k -> UnionItems] : k \in 0..MaxItems},
        close \in {<<"]">>, <<>>}}

\* one row per generated cell and column
UnionRows ==
    {Row([id |-> ID_a, status |-> PUBLISHED, type |-> CLASS, domain |-> cell]) :
        cell \in UnionCells}
    \cup
    {Row([id |-> ID_a, status |-> PUBLISHED, type |-> CLASS, range |-> cell]) :
        cell \in UnionCells}

\* the rows around the generated one
ContextRows ==
    {Row([id |-> ID_a, status |-> PUBLISHED, type |-> CLASS,
          domain |-> UNION_Work_Agent]),
     Row([id |-> ID_B, status |-> PLANNED, type |-> OBJECT_PROPERTY,
          range |-> UNION_Work_Agent, domain |-> BF_Work]),
     Row([id |-> ID_c, status |-> <<"draft">>])}

\* the longest CSV file of specification SpecUnion, in rows
MaxUnionRows == 2

NextUnion ==
    \/ LoadReleases
    \/ InjectVersionMetadata({NOON})
    \/ ProcessChangeNotes
    \/ ReadRow(IF nrows = 1 THEN UnionRows ELSE ContextRows, nrows < MaxUnionRows)
    \/ DomainRangeCols
    \/ TypeCol
    \/ MappingCols
    \/ RelationCols
    \/ EndRow
    \/ EndOfFile
    \/ AttachChangeNotes
    \/ FetchRelations
    \/ Validate
    \/ Serialize
    \/ WriteRdfXml

SpecUnion == Init /\ [][NextUnion]_vars

(***************************************************************************)
(* Specification SpecNotes: runs with a change notes file, over build      *)
(* versions and note versions with one- and two-digit components.          *)
(***************************************************************************)
V_0_9_0 == <<"0", ".", "9", ".", "0">>
V_0_10_0 == <<"0", ".", "10", ".", "0">>
V_1_0_0 == <<"1", ".", "0", ".", "0">>
\* a version of two components, and one of a single component that the
\* releases file does not list
V_1_0 == <<"1", ".", "0">>
V_2 == <<"2">>

\* the releases file: every version but V_2 has an issue date
NOTE_RELEASE_ROWS ==
    <<Release(V_0_9_0, "2024-03-01", <<>>, <<>>),
      Release(V_0_10_0, "2024-04-01", <<>>, <<>>),
      Release(V_1_0_0, "2024-05-01", <<>>, <<>>),
      Release(V_1_0, "2024-02-01", <<>>, <<>>)>>

\* the issue dates the run notes from it
NOTE_RELEASES == loadReleases({}, {}, NOTE_RELEASE_ROWS, <<>>).dates

\* the rows of the change notes file
Notes ==
    [id : {ID_a, ID_B},
     version : {V_0_9_0, <<"v">> \o V_0_10_0, V_1_0_0, V_1_0, V_2},
     changeNote : {<<"Label changed">>, <<"Deprecated", ": use bffi:c">>}]

\* the longest change notes file, in rows
MaxNotes == 2

NoteRows ==
    {Row([id |-> ID_a, status |-> PUBLISHED, type |-> CLASS]),
     Row([id |-> ID_a, status |-> DEPRECATED, type |-> CLASS, replacedBy |-> ID_c]),
     Row([id |-> ID_c, status |-> <<"draft">>, type |-> CLASS])}

\* the longest CSV file of specification SpecNotes, in rows
MaxNoteRows == 1

InitNotes ==
    /\ pc = "releases"
    /\ args \in [version : {V_0_9_0, V_0_10_0, V_1_0_0, V_1_0},
                 prior_version : {<<>>},
                 publishing_url : {<<"http", ":", "//schema.finto.fi/bffi/">>},
                 releases_path : {TRUE},
                 releases : {NOTE_RELEASE_ROWS},
                 change_notes_path : {TRUE},
                 notes : UNION {[1..k -> Notes] : k \in 0..MaxNotes},
                 write_rdfxml : {FALSE}]
    /\ versioning_dates = {}
    /\ graph = {}
    /\ cnotes_graph = {}
    /\ nb = 0
    /\ row = EmptyRow
    /\ rowStart = {}
    /\ prevRow = EmptyRow
    /\ nrows = 0
    /\ cached = {}
    /\ err = ""
    /\ output = {}
    /\ log = {}

NextNotes ==
    \/ LoadReleases
    \/ InjectVersionMetadata({NOON})
    \/ ProcessChangeNotes
    \/ ReadRow(NoteRows, nrows < MaxNoteRows)
    \/ DomainRangeCols
    \/ TypeCol
    \/ MappingCols
    \/ RelationCols
    \/ EndRow
    \/ EndOfFile
    \/ AttachChangeNotes
    \/ FetchRelations
    \/ Validate
    \/ Serialize

SpecNotes == InitNotes /\ [][NextNotes]_vars

(***************************************************************************)
(* Specification SpecCells: a first row generated from pools of cell       *)
(* values (identifier, status, type, single-term domain, the two mapping   *)
(* columns and their targets), or from cells that state several relations  *)
(* to one object, followed by ordinary rows.                               *)
(***************************************************************************)
EXAMPLE_IRI == <<"http", ":", "//example.org/", "X">>
RDA_CLASS_NS == <<"http", ":", "//rdaregistry.info/Elements/c/">>
RDA_CLASS == RDA_CLASS_NS \o <<"C10001">>
RDA_PROPERTY == <<"http", ":", "//rdaregistry.info/Elements/a/", "P50001">>
RDA_TERMLIST == <<"http", ":", "//rdaregistry.info", "/termList/", "RDAContentType/", "1020">>
NARROW_MATCH == <<"bffi-meta", ":", "narrowMatch">>
EQUIVALENT_CLASS == <<"owl", ":", "equivalentClass">>
SEE_ALSO == <<"rdfs", ":", "seeAlso">>
UNION_Example_Work == <<"[">> \o EXAMPLE_IRI \o <<",">> \o BF_Work \o <<"]">>

CellRows ==
    {Row(cells) : cells \in
        [id : {ID_a, <<"zz", ":", "a">>, <<>>},
         status : {PUBLISHED, <<"draft">>},
         type : {CLASS, OBJECT_PROPERTY, <<"banana">>},
         domain : {<<>>, EXAMPLE_IRI, BF_Work, <<"zz", ":", "x">>,
                   <<"[">> \o BF_Work, UNION_Example_Work},
         map_bf : {<<>>, EQUIVALENT_CLASS, NARROW_MATCH},
         bibframeURI : {<<>>, BF_NS \o <<"Work">>},
         map_rda : {<<>>, NARROW_MATCH, EQUIVALENT_CLASS},
         rdaURI : {<<>>, RDA_CLASS, RDA_PROPERTY,
                   RDA_PROPERTY \o <<" ", "|", " ">> \o RDA_TERMLIST,
                   <<"rdaa", ":", "P50001">>}]}
    \cup
    {Row(cells) : cells \in
        [id : {ID_a, <<"bffi", ":", "10">>},
         status : {PUBLISHED},
         type : {CLASS, OBJECT_PROPERTY},
         domain : {<<>>, BF_Work},
         range : {<<>>, BF_Work, <<"Work">>},
         subClassOf : {<<>>, BF_Work, <<"Work">>},
         map_rda : {<<>>, SEE_ALSO},
         rdaURI : {<<>>, BF_NS \o <<"Work">>}]}

\* the longest CSV file of specification SpecCells, in rows
MaxCellRows == 2

NextCells ==
    \/ LoadReleases
    \/ InjectVersionMetadata({NOON})
    \/ ProcessChangeNotes
    \/ ReadRow(IF nrows = 0 THEN CellRows ELSE ContextRows, nrows < MaxCellRows)
    \/ DomainRangeCols
    \/ TypeCol
    \/ MappingCols
    \/ RelationCols
    \/ EndRow
    \/ EndOfFile
    \/ AttachChangeNotes
    \/ FetchRelations
    \/ Validate
    \/ Serialize
    \/ WriteRdfXml

SpecCells == Init /\ [][NextCells]_vars

(***************************************************************************)
(* Properties                                                              *)
(***************************************************************************)
TYPE_TOKENS == {CLASS, OBJECT_PROPERTY, SYMMETRIC_PROPERTY, DATATYPE_PROPERTY}

\* none of the fatal conditions that can be read off a normalized row alone
\* holds of r: identifier outside bffi:, unexpected type or mapping token,
\* union start without union end
NoFatalCell(r) ==
    /\ r.id # <<>> /\ r.id[1] = "bffi" /\ r.id[2] = ":"
    /\ r.type \in TYPE_TOKENS
    /\ r.map_bf = <<>> \/ r.map_bf \in BF_MAPPINGS
    /\ r.map_rda = <<>> \/ r.map_rda \in RDA_MAPPINGS
    /\ \A c \in {"domain", "range"} :
         (r[c] # <<>> /\ r[c][1] = "[") => r[c][Len(r[c])] = "]"

\* C1: a fatal error ends the run before serialization.  The run has an
\* error exactly when it is aborted, and then no file has been written; a
\* file is written only by a run that passed convertCSV, the change notes
\* and validate without error; and every accepted row that was handled to
\* its end had none of the fatal cells (so a row with one never lets the
\* run go on).
C1_NoOutputOnFatalError ==
    /\ (err # "") <=> (pc = "aborted")
    /\ pc = "aborted" => output = {}
    /\ output # {} => pc \in {"rdfxml", "done"}
    /\ "rdf" \in output => "ttl" \in output /\ args.write_rdfxml
    /\ pc \in {"attach", "fetch", "validate", "serialize", "rdfxml", "done"}
         => prevRow = EmptyRow \/ NoFatalCell(prevRow)

\* C1 witness: a run aborted by the unexpected type value of its second
\* row, after a first row was converted, with nothing written
C1_Witness ==
    /\ pc = "aborted"
    /\ err = "unexpected type value"
    /\ prevRow # EmptyRow
    /\ graph # {}
    /\ output = {}

\* the subject of the row being handled
subj == bffi_id(row)

\* the step that ends an accepted row without error
RowEnds == pc = "status" /\ pc' = "rows"

\* the number of comma-separated values of a cell
numValues(cell) ==
    IF cell = <<>> THEN 0
    ELSE Cardinality({i \in 1..Len(cell) : cell[i] = ","}) + 1

\* the predicates a deprecated subject may carry
DEPRECATED_PREDICATES ==
    {RDFS_label, DCTERMS_modified, RDF_type, OWL_deprecated, DCTERMS_isReplacedBy}

\* the state of a deprecated subject s in graph g
DeprecatedState(g, s) ==
    /\ <<s, OWL_deprecated, TRUE_LITERAL>> \in g
    /\ objects(g, s, RDF_type) # {}
    /\ objects(g, s, RDF_type) \subseteq {OWL_DeprecatedClass, OWL_DeprecatedProperty}
    /\ \A t \in outgoing(g, s) : t[2] \in DEPRECATED_PREDICATES

\* C2: when a row with status deprecated has been handled, its subject
\* carries only label, modified, type, deprecated and isReplacedBy triples:
\* the labels and modified values it had, one type (DeprecatedClass if it had
\* type Class, else DeprecatedProperty), deprecated = true, and one
\* isReplacedBy per comma-separated value of the replaced-by cell.
C2_DeprecationResult ==
    [][(RowEnds /\ row.status = DEPRECATED) =>
         /\ \A t \in outgoing(graph', subj) : t[2] \in DEPRECATED_PREDICATES
         /\ objects(graph', subj, RDF_type) =
              {IF <<subj, RDF_type, OWL_Class>> \in graph
               THEN OWL_DeprecatedClass ELSE OWL_DeprecatedProperty}
         /\ objects(graph', subj, OWL_deprecated) = {TRUE_LITERAL}
         /\ Cardinality(objects(graph', subj, DCTERMS_isReplacedBy))
              = numValues(row.replacedBy)
         /\ \A p \in {RDFS_label, DCTERMS_modified} :
              objects(graph', subj, p) = objects(graph, subj, p)
         /\ \A t \in graph' \ graph : t[1] = subj
         /\ \A t \in graph \ graph' : t[1] = subj
      ]_vars

\* C2 witness: a deprecated row that gave a range, a domain and an inverse
\* has been handled, and its subject has none of them left
C2_Witness ==
    /\ pc = "rows"
    /\ prevRow.status = DEPRECATED
    /\ prevRow.range = BF_Work /\ prevRow.domain # <<>> /\ prevRow.inverseOf # <<>>
    /\ DeprecatedState(graph, bffi_id(prevRow))
    /\ objects(graph, bffi_id(prevRow), RDFS_label) # {}
    /\ objects(graph, bffi_id(prevRow), RDFS_range) = {}

\* C3 (as claimed): at the end of row processing every subject that a row
\* has deprecated is still in the deprecated state.
C3_DeprecatedIsTerminal ==
    pc = "attach" =>
        \A t \in graph :
            (t[2] = OWL_deprecated /\ t[3] = TRUE_LITERAL)
                => DeprecatedState(graph, t[1])

\* C4 (as claimed): handling the same deprecated row again, directly after
\* the first time, leaves the subject's triples as they were.
C4_ReprocessingIsIdempotent ==
    [][(RowEnds /\ row.status = DEPRECATED /\ row = prevRow) =>
         outgoing(graph', subj) = outgoing(rowStart, subj)]_vars

\* the cell of column col repeats the previous row's cell for the same id
repeated(col) ==
    /\ row.id = prevRow.id
    /\ row[col] # <<>>
    /\ row[col] = prevRow[col]

\* C5 (as claimed): when a row repeats the previous row's id and its domain
\* (range) cell, the subject has the same domain (range) triples after the
\* row as before it.
C5_SameTriplesAfterRepeat ==
    [][RowEnds =>
         /\ repeated("domain") =>
              objects(graph', subj, RDFS_domain) = objects(rowStart, subj, RDFS_domain)
         /\ repeated("range") =>
              objects(graph', subj, RDFS_range) = objects(rowStart, subj, RDFS_range)
      ]_vars

\* C5 (amended): a repeated domain (range) cell is not processed: the
\* domain/range step adds no domain (range) triple and, when neither cell is
\* processed, allocates no anonymous node.  If the row is not deprecated the
\* subject's domain triples after the row are those before it, and its range
\* triples too except for a default range added when the subject had none.
\* If the row is deprecated, its deprecation leaves the subject without
\* domain and without range triples.
C5_ContinuationSuppression ==
    [][/\ (pc = "domain" /\ pc' = "type") =>
            /\ repeated("domain") =>
                 objects(graph', subj, RDFS_domain) = objects(graph, subj, RDFS_domain)
            /\ repeated("range") =>
                 objects(graph', subj, RDFS_range) = objects(graph, subj, RDFS_range)
            /\ (\A c \in {"domain", "range", "rvv"} : row[c] = <<>> \/ repeated(c)) =>
                 graph' = graph /\ nb' = nb
       /\ (RowEnds /\ row.status # DEPRECATED) =>
            /\ repeated("domain") =>
                 objects(graph', subj, RDFS_domain) = objects(rowStart, subj, RDFS_domain)
            /\ repeated("range") =>
                 IF objects(rowStart, subj, RDFS_range) # {}
                 THEN objects(graph', subj, RDFS_range) = objects(rowStart, subj, RDFS_range)
                 ELSE objects(graph', subj, RDFS_range) \subseteq {RDFS_Resource, RDFS_Literal}
       /\ (RowEnds /\ row.status = DEPRECATED
               /\ (repeated("domain") \/ repeated("range"))) =>
            /\ objects(graph', subj, RDFS_domain) = {}
            /\ objects(graph', subj, RDFS_range) = {}
      ]_vars

\* C5 witness: the second of two accepted rows of bffi:a, which repeats the
\* bracketed domain cell of the first, has been handled to its end (it is
\* the row read last and the previous row of the next): the subject had the
\* union node of the first row when the second row started and has no other
\* after it, and no anonymous node was made for the second row
C5_Witness ==
    /\ pc = "rows"
    /\ nrows = 2
    /\ row = prevRow
    /\ row.id = ID_a /\ row.status = PUBLISHED
    /\ row.domain = UNION_Work_Agent
    /\ nb = 3
    /\ objects(rowStart, subj, RDFS_domain) = {BNode(1)}
    /\ objects(graph, subj, RDFS_domain) = {BNode(1)}

\* C6 (as claimed): an ObjectProperty or SymmetricProperty row gets the type
\* it names and ObjectProperty, and the default range Resource exactly when
\* the subject has no range; a range given on the row prevents the default.
C6_ObjectPropertyDefaultRange ==
    [][(pc = "type" /\ row.type \in OBJECT_PROPERTY_TOKENS) =>
         /\ pc' = "mapping"
         /\ {<<subj, RDF_type, OWL_ObjectProperty>>,
             <<subj, RDF_type, owlTerm(row.type)>>} \subseteq graph'
         /\ (<<subj, RDFS_range, RDFS_Resource>> \in graph' \ graph)
              <=> objects(graph, subj, RDFS_range) = {}
         /\ row.range # <<>> =>
              <<subj, RDFS_range, RDFS_Resource>> \notin graph' \ graph
      ]_vars

\* C7: on a DatatypeProperty row the type step adds the type and, when the
\* subject has no range, the range Literal; it succeeds when the subject's
\* ranges are within {Literal} and otherwise aborts with a range mismatch.
C7_DatatypePropertyRange ==
    [][(pc = "type" /\ row.type = DATATYPE_PROPERTY) =>
         IF objects(graph, subj, RDFS_range) \subseteq {RDFS_Literal}
         THEN /\ pc' = "mapping"
              /\ graph' = graph \cup {<<subj, RDF_type, OWL_DatatypeProperty>>,
                                      <<subj, RDFS_range, RDFS_Literal>>}
         ELSE /\ pc' = "aborted"
              /\ err' = "range mismatch for datatype property"
      ]_vars

\* C7 witness: a DatatypeProperty row whose range is a union node aborted
C7_Witness ==
    /\ pc = "aborted"
    /\ err = "range mismatch for datatype property"
    /\ row.type = DATATYPE_PROPERTY
    /\ \E o \in objects(graph, subj, RDFS_range) : isBNode(o)

\* C8: a row whose type cell is none of the recognised tokens aborts the
\* run at the type step, whatever its status, and no such row gets past
\* the type step.
C8_BadTypeTokenAborts ==
    [][/\ (pc = "type" /\ row.type \notin TYPE_TOKENS) =>
            pc' = "aborted" /\ err' = "unexpected type value" /\ output' = {}
       /\ pc' \in {"mapping", "relations", "status"} => row'.type \in TYPE_TOKENS
      ]_vars

\* C8 witness: a deprecated row whose type cell held a sentinel value, read
\* as empty, aborted the run
C8_Witness ==
    /\ pc = "aborted"
    /\ err = "unexpected type value"
    /\ row.status = DEPRECATED
    /\ row.type = <<>>

\* the padding stripped from the members of a bracketed cell
PAD == {" ", "{", "}"}

\* the positions that delimit the pieces of a bracketed cell: its two
\* brackets and the commas between them
Seps(cell) == {1, Len(cell)} \cup {i \in 2..(Len(cell) - 1) : cell[i] = ","}

\* the delimiter after position a
nextSep(cell, a) ==
    CHOOSE b \in Seps(cell) : b > a /\ \A c \in Seps(cell) : c > a => b <= c

\* the positions of piece a that hold something other than padding
inkOf(cell, a) == {i \in (a + 1)..(nextSep(cell, a) - 1) : cell[i] \notin PAD}

\* the delimiters that open a non-empty member
MemberStarts(cell) ==
    {a \in Seps(cell) \ {Len(cell)} : inkOf(cell, a) # {}}

\* the member opened at delimiter a, without its padding
memberAt(cell, a) ==
    LET ink == inkOf(cell, a)
        lo == CHOOSE i \in ink : \A j \in ink : i <= j
        hi == CHOOSE i \in ink : \A j \in ink : i >= j
    IN  SubSeq(cell, lo, hi)

\* the non-empty members of a bracketed cell, in cell order
Members(cell) ==
    [k \in 1..Cardinality(MemberStarts(cell)) |->
        memberAt(cell, CHOOSE a \in MemberStarts(cell) :
                           Cardinality({b \in MemberStarts(cell) : b < a}) = k - 1)]

\* a member that names a term: an absolute IRI or a name with a bound prefix
Resolvable(m) ==
    \/ startswithHttp(m)
    \/ Len(m) >= 3 /\ m[2] = ":" /\ m[1] \in DOMAIN nsm

\* the term a resolvable member names
Resolved(m) ==
    IF startswithHttp(m) THEN <<"iri">> \o m
    ELSE <<"iri">> \o nsm[m[1]] \o SubSeq(m, 3, Len(m))

Unterminated(cell) == cell[Len(cell)] # "]"

Nested(cell) == \E i \in 2..(Len(cell) - 1) : cell[i] \in {"[", "]"}

\* a bracketed cell that is closed, not nested, and has two or more
\* non-empty members, all of which name a term
WellFormedUnion(cell) ==
    /\ cell # <<>> /\ cell[1] = "["
    /\ ~Unterminated(cell) /\ ~Nested(cell)
    /\ Cardinality(MemberStarts(cell)) >= 2
    /\ \A k \in 1..Len(Members(cell)) : Resolvable(Members(cell)[k])

\* the column whose cell the domain/range step expands first, if any
processed(col) == row[col] # <<>> /\ ~repeated(col)

\* the predicate of a column
predicateOf(col) == IF col = "domain" THEN RDFS_domain ELSE RDFS_range

\* the RDF list that starts at node h in graph g, at most n cells long
RECURSIVE listOf(_, _, _)
listOf(g, h, n) ==
    IF h = RDF_nil \/ n = 0 \/ Cardinality(objects(g, h, RDF_first)) # 1
                             \/ Cardinality(objects(g, h, RDF_rest)) # 1
    THEN <<>>
    ELSE <<CHOOSE m \in objects(g, h, RDF_first) : TRUE>>
         \o listOf(g, CHOOSE t \in objects(g, h, RDF_rest) : TRUE, n - 1)

\* the nodes of a graph
nodes(g) == {t[1] : t \in g} \cup {t[3] : t \in g}

\* C9: expanding a well-formed bracketed cell with n >= 2 non-empty members
\* adds one new anonymous node u of type Class, the triple (subject,
\* predicate, u) and a unionOf list of the n resolved members in cell order,
\* none of them a union node, and nothing else.
C9_UnionExpansion ==
    [][\A col \in {"domain", "range"} :
        (/\ pc = "domain"
         /\ processed(col) /\ WellFormedUnion(row[col])
         /\ \A c \in {"domain", "range", "rvv"} \ {col} : row[c] = <<>>) =>
            LET new == graph' \ graph
                U == {t[1] : t \in {x \in new : x[2] = RDF_type /\ x[3] = OWL_Class}}
                n == Len(Members(row[col]))
            IN  /\ pc' = "type"
                /\ graph \subseteq graph'
                /\ Cardinality(U) = 1
                /\ Cardinality(new) = 3 + 2 * n
                /\ \A u \in U :
                     /\ isBNode(u) /\ u \notin nodes(graph)
                     /\ <<subj, predicateOf(col), u>> \in new
                     /\ Cardinality(objects(graph', u, OWL_unionOf)) = 1
                     /\ \A h \in objects(graph', u, OWL_unionOf) :
                          /\ h \notin nodes(graph)
                          /\ listOf(graph', h, n + 1)
                               = [k \in 1..n |-> Resolved(Members(row[col])[k])]
                     /\ \A k \in 1..n :
                          /\ isIRI(Resolved(Members(row[col])[k]))
                          /\ objects(graph', Resolved(Members(row[col])[k]),
                                     OWL_unionOf) = {}
      ]_vars

\* C9 witness: a cell of three members, one padded with braces and one an
\* absolute IRI, has been expanded in a graph that held a union node before
C9_Witness ==
    /\ pc = "type"
    /\ nrows = 2
    /\ row.range = <<"[">> \o BF_Work \o <<",", "{">> \o ID_c \o <<"}", " ", ",">>
                     \o <<"http", ":", "//example.org/", "X", "]">>
    /\ nb = 7
    /\ listOf(graph, BNode(5), 4)
         = <<URIRef(BF_NS, "Work"), URIRef(BFFI_NS, "c"),
             <<"iri", "http", ":", "//example.org/", "X">>>>
    /\ <<bffi_id(row), RDFS_range, BNode(4)>> \in graph
    /\ <<bffi_id(row), RDFS_domain, BNode(1)>> \in graph

\* C10: a processed cell that starts with "[" and is unterminated, or has a
\* bracket in its interior, or has fewer than two non-empty members, aborts
\* the run with the error of its case, and the graph is left as it was.
C10_MalformedUnionFails ==
    [][\A col \in {"domain", "range"} :
        (/\ pc = "domain"
         /\ processed(col) /\ row[col][1] = "["
         /\ col = "range" => ~processed("domain")
         /\ \/ Unterminated(row[col])
            \/ Nested(row[col])
            \/ Cardinality(MemberStarts(row[col])) < 2) =>
            /\ pc' = "aborted"
            /\ err' = IF Unterminated(row[col]) THEN "unterminated union"
                      ELSE IF Nested(row[col]) THEN "nested brackets"
                      ELSE "less than two elements"
            /\ graph' = graph
            /\ nb' = nb
            /\ output' = {}
      ]_vars

\* C10 witness: a closed cell whose only non-empty member is followed by
\* blank items has aborted the run, the graph of the rows before it intact
C10_Witness ==
    /\ pc = "aborted"
    /\ err = "less than two elements"
    /\ row.domain = <<"[">> \o BF_Work \o <<",", " ", ",", "]">>
    /\ nb = 3
    /\ graph = labels(rowStart, row)
    /\ \E t \in graph : t[2] = OWL_unionOf

\* a version as a tuple of numbers (numerals)
versionNumbers(v) ==
    [i \in 1..Len(split(v, ".")) |-> int(split(v, ".")[i])]

\* a <= b for tuples of numbers of the same length, lexicographically
RECURSIVE numbersLeq(_, _)
numbersLeq(a, b) ==
    IF a = <<>> THEN TRUE
    ELSE IF Head(a) # Head(b) THEN intLess(Head(a), Head(b))
    ELSE numbersLeq(Tail(a), Tail(b))

\* the version cell of a note without its "v"
noteVersion(note) == strip(note.version, {"v"})

\* the triple that places a note in the change-note set
noteTriple(note) ==
    <<URIRef(BFFI_NS, note.id[3]), DCTERMS_modified,
      <<"lit", "",
        IF hasDate(NOTE_RELEASES, noteVersion(note))
        THEN dateOf(NOTE_RELEASES, noteVersion(note)) ELSE "",
        " (">>
          \o note.changeNote \o <<")">>>>

\* C11 (as claimed): once the change notes file has been read, a note with a
\* three-component version N is in the change-note set if and only if
\* N <= V as tuples of numbers, V being the build version.
C11_VersionMonotonicity ==
    pc \notin {"releases", "metadata", "cnotes", "aborted"} =>
        \A i \in 1..Len(args.notes) :
            (/\ Len(split(noteVersion(args.notes[i]), ".")) = 3
             /\ Len(split(args.version, ".")) = 3)
            => ((noteTriple(args.notes[i]) \in cnotes_graph)
                <=> numbersLeq(versionNumbers(noteVersion(args.notes[i])),
                               versionNumbers(args.version)))

\* the relation tokens each mapping column accepts
BIBFRAME_WHITELIST ==
    {<<"owl", ":", "equivalentClass">>, <<"owl", ":", "equivalentProperty">>,
     <<"bffi-meta", ":", "exactMatch">>, <<"bffi-meta", ":", "closeMatch">>,
     <<"bffi-meta", ":", "broadMatch">>}

RDA_WHITELIST ==
    {<<"bffi-meta", ":", "broadMatch">>, <<"bffi-meta", ":", "closeMatch">>,
     <<"bffi-meta", ":", "exactMatch">>, <<"bffi-meta", ":", "narrowMatch">>,
     <<"rdfs", ":", "seeAlso">>, <<"bffi-meta", ":", "relatedValueVocabulary">>}

\* the targets of the RDA target cell: its "|"-separated pieces
rdaTargets(r) == Range(stripEach(split(r.rdaURI, "|")))

\* the mapping triples a row states in its BIBFRAME column
bfExpected(r) ==
    IF r.map_bf = <<>> \/ r.bibframeURI = <<>> THEN {}
    ELSE {<<bffi_id(r), Resolved(r.map_bf), <<"iri">> \o r.bibframeURI>>}

\* the mapping triples a row states in its RDA column
rdaExpected(r) ==
    IF r.map_rda = <<>> \/ r.rdaURI = <<>> THEN {}
    ELSE {<<bffi_id(r), Resolved(r.map_rda), Resolved(t)>> : t \in rdaTargets(r)}

\* C12: in each mapping column an empty relation token adds no mapping
\* triple and raises no error, a non-empty token outside the column's own
\* whitelist aborts the run, and a whitelisted token adds one mapping triple
\* per target exactly when the target cell is non-empty.
C12_MappingWhitelists ==
    [][pc = "mapping" =>
        IF row.map_bf # <<>> /\ row.map_bf \notin BIBFRAME_WHITELIST
        THEN /\ pc' = "aborted"
             /\ err' = "unexpected BIBFRAME mapping value"
             /\ graph' = graph
        ELSE IF row.map_rda # <<>> /\ row.map_rda \notin RDA_WHITELIST
        THEN /\ pc' = "aborted"
             /\ err' = "unexpected RDA mapping value"
             /\ graph' = graph \cup bfExpected(row)
        ELSE (row.map_rda # <<>> /\ row.rdaURI # <<>>
                 => \A t \in rdaTargets(row) : Resolvable(t)) =>
             /\ pc' = "relations"
             /\ graph' = graph \cup bfExpected(row) \cup rdaExpected(row)
      ]_vars

\* C12 witness: narrowMatch has been accepted in the RDA column with two
\* targets and equivalentClass in the BIBFRAME column with one
C12_Witness ==
    /\ pc = "relations"
    /\ row.map_rda = NARROW_MATCH /\ row.map_bf = EQUIVALENT_CLASS
    /\ Cardinality(objects(graph, subj, URIRef(BFFIMETA_NS, "narrowMatch"))) = 2
    /\ objects(graph, subj, URIRef(OWL, "equivalentClass")) = {URIRef(BF_NS, "Work")}

\* an RDA target that names an RDA class
isRdaClass(t) == Len(t) > 3 /\ SubSeq(t, 1, 3) = RDA_CLASS_NS

\* a class mapped to an RDA target that is neither a class nor a termList
\* reference, or a non-class mapped to an RDA class
classMismatch(r, t) ==
    \/ r.type = CLASS /\ ~isRdaClass(t) /\ ~contains(t, "/termList/")
    \/ r.type # CLASS /\ isRdaClass(t)

\* C13 (as claimed): a class/non-class mismatch with an RDA mapping target
\* is logged, the mapping triple is asserted and the row goes on.
C13_ClassMismatchIsLogged ==
    [][(/\ pc = "mapping"
        /\ row.map_bf \in BIBFRAME_WHITELIST \cup {<<>>}
        /\ row.map_rda \in RDA_WHITELIST
        /\ row.rdaURI # <<>>
        /\ \A t \in rdaTargets(row) : Resolvable(t)
        /\ \E t \in rdaTargets(row) : classMismatch(row, t)) =>
            /\ pc' = "relations"
            /\ rdaExpected(row) \subseteq graph'
            /\ log' # log
      ]_vars

\* C14: when the change notes are attached, a note of the change-note set
\* is added to the main graph exactly when its subject is a subject of the
\* main graph and, if that subject carries deprecated = true, the note text
\* begins with "Deprecated"; nothing else is added and nothing is removed.
C14_ChangeNoteAttachment ==
    [][pc = "attach" =>
        /\ graph \subseteq graph'
        /\ graph' \ graph \subseteq cnotes_graph
        /\ \A i \in 1..Len(args.notes) :
             LET note == args.notes[i]
                 s == URIRef(BFFI_NS, note.id[3])
             IN  noteTriple(note) \in cnotes_graph =>
                   ((noteTriple(note) \in graph')
                      <=> /\ \E t \in graph : t[1] = s
                          /\ (<<s, OWL_deprecated, TRUE_LITERAL>> \in graph
                                => note.changeNote[1] = "Deprecated"))
      ]_vars

\* C14 witness: a deprecated subject had two notes in the change-note set
\* and has received the one that begins with "Deprecated" only
C14_Witness ==
    /\ pc = "fetch"
    /\ <<URIRef(BFFI_NS, "a"), OWL_deprecated, TRUE_LITERAL>> \in graph
    /\ Len(args.notes) = 2
    /\ args.notes[1].changeNote = <<"Label changed">>
    /\ args.notes[2].changeNote[1] = "Deprecated"
    /\ {noteTriple(args.notes[1]), noteTriple(args.notes[2])} \subseteq cnotes_graph
    /\ noteTriple(args.notes[2]) \in graph
    /\ noteTriple(args.notes[1]) \notin graph

\* C15: after the version metadata has been injected the ontology node has
\* one modified value, the current timestamp; with a version it has one
\* versionIRI (publishing URL, the version with dashes for dots, "/") and one
\* versionInfo; priorVersion is replaced when a prior version is supplied
\* and is otherwise what it was.
C15_VersionMetadataReplaced ==
    [][pc = "metadata" =>
        /\ \E now \in Clock :
             objects(graph', bffiURIRef, DCTERMS_modified)
                = {<<"lit", "xsd:dateTime">> \o now}
        /\ args.version = <<"1", ".", "0", ".", "0">> =>
             /\ objects(graph', bffiURIRef, URIRef(OWL, "versionIRI"))
                  = {<<"iri", "http", ":", "//schema.finto.fi/bffi/",
                       "1", "-", "0", "-", "0", "/">>}
             /\ objects(graph', bffiURIRef, URIRef(OWL, "versionInfo"))
                  = {<<"lit", "", "1", ".", "0", ".", "0">>}
        /\ IF args.prior_version = <<"0", ".", "5", ".", "0">>
           THEN objects(graph', bffiURIRef, URIRef(OWL, "priorVersion"))
                  = {<<"iri", "http", ":", "//schema.finto.fi/bffi/",
                       "0", "-", "5", "-", "0", "/">>}
           ELSE objects(graph', bffiURIRef, URIRef(OWL, "priorVersion"))
                  = objects(graph, bffiURIRef, URIRef(OWL, "priorVersion"))
        /\ \A t \in (graph \ graph') \cup (graph' \ graph) :
             /\ t[1] = bffiURIRef
             /\ t[2] \in {DCTERMS_modified, URIRef(DCTERMS, "issued"),
                          URIRef(OWL, "versionIRI"), URIRef(OWL, "versionInfo"),
                          URIRef(OWL, "priorVersion")}
      ]_vars

\* C15 witness: an overlay with two modified values, two version IRIs and a
\* prior version has been replaced by the values of this build
C15_Witness ==
    /\ pc = "cnotes"
    /\ args.version # <<>> /\ args.prior_version # <<>>
    /\ <<bffiURIRef, URIRef(OWL, "versionInfo"), <<"lit", "", "1", ".", "0", ".", "0">>>>
         \in graph
    /\ <<bffiURIRef, URIRef(DCTERMS, "issued"), <<"lit", "xsd:date", "2023-01-01">>>>
         \in graph
    /\ Cardinality(outgoing(graph, bffiURIRef)) = 9

\* C16: a row whose status cell is none of published, planned, deprecated
\* is skipped: reading it leaves the graph, the blank-node count, the
\* remembered previous row and the log as they were, raises no error and
\* leaves the converter ready for the next row, whatever its other cells hold.
C16_SkippedRowsLeaveGraph ==
    [][ (pc = "rows" /\ nrows' = nrows + 1
         /\ row'.status \notin {<<"published">>, <<"planned">>, <<"deprecated">>})
        => /\ graph' = graph
           /\ err' = err /\ err' = ""
           /\ pc' = "rows"
           /\ nb' = nb
           /\ prevRow' = prevRow
           /\ log' = log
      ]_vars

\* C16 witness: a draft row whose identifier, type and union cell would each
\* be fatal on an accepted row has been read and the converter is still
\* between rows with a graph that holds the ontology node only
C16_Witness ==
    /\ pc = "rows" /\ nrows = 1 /\ err = ""
    /\ row.status = <<"draft">>
    /\ row.id = <<"zz", ":", "a">>
    /\ row.type = <<"banana">>
    /\ row.domain = <<"[">> \o BF_Work
    /\ row.map_bf = NARROW_MATCH
    /\ graph # {} /\ graph = outgoing(graph, bffiURIRef)

\* C17: reading an accepted row whose identifier cell is not empty and does
\* not begin with "bffi:" ends the run with the error "BFFI-id is not within
\* the bffi: namespace", and the graph holds no triple it did not hold before
\* the row was read.
C17_IdOutsideNamespaceFails ==
    [][ (pc = "rows" /\ nrows' = nrows + 1
         /\ row'.status \in {<<"published">>, <<"planned">>, <<"deprecated">>}
         /\ row'.id # <<>>
         /\ ~(Len(row'.id) >= 2 /\ row'.id[1] = "bffi" /\ row'.id[2] = ":"))
        => /\ pc' = "aborted"
           /\ err' = "BFFI-id is not within the bffi: namespace"
           /\ graph' = graph
           /\ nb' = nb
      ]_vars

\* C17 witness: the run has ended on a published row with identifier zz:a
\* whose type and domain cells could be converted, and the graph holds
\* the ontology node only
C17_Witness ==
    /\ pc = "aborted"
    /\ err = "BFFI-id is not within the bffi: namespace"
    /\ nrows = 1
    /\ row.status = <<"published">>
    /\ row.id = <<"zz", ":", "a">>
    /\ row.type = CLASS /\ row.domain = BF_Work
    /\ graph # {} /\ graph = outgoing(graph, bffiURIRef)

\* C18: a reference that begins with http or https names the absolute IRI it
\* spells, and any other reference names the term its prefix and local name
\* expand to, or ends the run when the prefix is not bound. This holds of
\* the reference in a single-term domain cell, of every member of a
\* well-formed union cell and of every target of an accepted RDA mapping.
C18_TermResolution ==
    [][ /\ (pc = "domain" /\ nrows = 1 /\ row.domain # <<>>
            /\ row.domain[1] # "[" /\ contains(row.domain, ":"))
           => IF Resolvable(row.domain)
              THEN /\ pc' # "aborted"
                   /\ <<subj, RDFS_domain, Resolved(row.domain)>> \in graph'
              ELSE /\ pc' = "aborted"
                   /\ err' = "undefined prefix"
        /\ (pc = "domain" /\ nrows = 1 /\ WellFormedUnion(row.domain))
           => /\ pc' # "aborted"
              /\ \A k \in 1..Len(Members(row.domain)) :
                   \E t \in graph' \ graph :
                     t[2] = RDF_first /\ t[3] = Resolved(Members(row.domain)[k])
        /\ (pc = "mapping" /\ nrows = 1
            /\ (row.map_bf = <<>> \/ row.map_bf \in BIBFRAME_WHITELIST)
            /\ row.map_rda \in RDA_WHITELIST /\ row.rdaURI # <<>>)
           => IF \A t \in rdaTargets(row) : Resolvable(t)
              THEN /\ pc' # "aborted"
                   /\ \A t \in rdaTargets(row) :
                        <<subj, Resolved(row.map_rda), Resolved(t)>> \in graph'
              ELSE /\ pc' = "aborted"
                   /\ err' = "undefined prefix"
      ]_vars

\* the subjects the validator reports on: IRIs in the bffi: and bffi-meta:
\* namespaces other than the ontology node
managedSubjects(g) ==
    {t[1] : t \in {t \in g : /\ isIRI(t[1])
                             /\ \/ startswith(strOf(t[1]), BFFI_NS)
                                \/ startswith(strOf(t[1]), BFFIMETA_NS)
                             /\ <<t[1], RDF_type, OWL_Ontology>> \notin g}}

\* two different predicates other than the pair {domain, range} hold
\* between s and o
twoRelations(g, s, o) ==
    \E p, p2 \in {t[2] : t \in g} :
        /\ p # p2
        /\ {p, p2} # {RDFS_domain, RDFS_range}
        /\ <<s, p, o>> \in g /\ <<s, p2, o>> \in g

\* C20: when the validator has run, a managed subject s has the warning
\* "has more than 1 relationship with" o in the log exactly when two
\* different predicates hold between s and o and the two are not domain and
\* range; a pair with only one of domain and range is reported.
C20_AmbiguousRelationReported ==
    [][ (pc = "validate" /\ pc' = "serialize")
        => \A s \in managedSubjects(graph) :
             \A o \in {t[3] : t \in graph} :
               twoRelations(graph, s, o)
                 <=> logged("WARNING", "has more than 1 relationship with", <<s, o>>)
                       \in log'
      ]_vars

\* C19: the validator step never ends the run: it hands over to
\* serialization with the graph and the error state as they were and
\* nothing written yet, everything it does is adding log records, each about
\* a subject in the bffi: or bffi-meta: namespace, and no step after it
\* changes the graph.
C19_ValidatorIsAdvisory ==
    [][ /\ pc = "validate"
           => /\ pc' = "serialize"
              /\ err' = err /\ err' = ""
              /\ graph' = graph
              /\ output' = output /\ output' = {}
              /\ log \subseteq log'
              /\ \A f \in log' \ log :
                   /\ f.level = "WARNING"
                   /\ isIRI(f.about[1])
                   /\ \/ startswith(strOf(f.about[1]), BFFI_NS)
                      \/ startswith(strOf(f.about[1]), BFFIMETA_NS)
        /\ pc \in {"serialize", "rdfxml", "done"} => graph' = graph
      ]_vars

\* the cells whose triples are asserted anew by every accepted row
ReassertedColumns ==
    {"id", "label_en", "label_fi", "type", "subClassOf", "map_bf", "bibframeURI",
     "map_rda", "rdaURI"}

\* the label, type, subclass and mapping triples of subject s in graph g
reasserted(g, s) ==
    {t \in g : /\ t[1] = s
               /\ t[2] \in {RDFS_label, RDF_type, RDFS_subClassOf,
                            OWL_equivalentClass, OWL_equivalentProperty,
                            URIRef(BFFIMETA_NS, "closeMatch")}}

\* the row in hand is an accepted row that is not deprecated and repeats the
\* identifier, label, type, subclass and mapping cells of the accepted row
\* before it, which was not deprecated either: every label, type, subclass
\* and mapping triple it asserts is in the graph already
reasserting ==
    /\ pc \in {"domain", "type", "mapping", "relations", "status"}
    /\ row.status # <<"deprecated">> /\ prevRow.status # <<"deprecated">>
    /\ \A c \in ReassertedColumns : row[c] = prevRow[c]

\* C21: asserting a triple the graph already holds leaves the triples, and
\* so their number, as they were: when an accepted row repeats the
\* identifier, label, type, subclass and mapping cells of the accepted row
\* before it (neither row deprecated), no step of the row changes the
\* label, type, subclass and mapping triples of the subject, and the subject
\* has the same such triples, as many, after the row as before it.
C21_AssertionIsIdempotent ==
    [][ /\ reasserting =>
             /\ reasserted(graph', subj) = reasserted(graph, subj)
             /\ Cardinality(reasserted(graph', subj))
                  = Cardinality(reasserted(graph, subj))
        /\ (reasserting /\ RowEnds) =>
             /\ reasserted(graph', subj) = reasserted(rowStart, subj)
             /\ Cardinality(reasserted(graph', subj))
                  = Cardinality(reasserted(rowStart, subj))
      ]_vars

\* C21 witness: the published class row of bffi:a, with its labels, its
\* type and its two superclasses, has been handled twice in a row and the
\* second time added nothing
C21_Witness ==
    /\ pc = "rows" /\ nrows = 2
    /\ row.id = ID_a /\ row.status = PUBLISHED /\ row.type = CLASS
    /\ row.subClassOf # <<>>
    /\ prevRow = row
    /\ graph = rowStart
    /\ Cardinality(reasserted(graph, subj)) = 5

(***************************************************************************)
(* C22: fetch or reuse of the LoC ontology                                 *)
(***************************************************************************)
\* the LoC ontologies a metadata overlay relates the ontology node to
LOC_RELATION == <<"iri", "http", ":", "//id.loc.gov/ontologies/bibframe/">>
BFLC_RELATION == <<"iri", "http", ":", "//id.loc.gov/ontologies/bflc/">>

\* the names of the local copies on disk
copies(files) == {f[1] : f \in files}

\* the record of a network read of a LoC ontology
downloaded(o) == logged("INFO", "Downloaded LoC ontology file", <<local_bf_source(o)>>)

\* C22: the lookup of a LoC ontology the run is related to reads the
\* network only when no local copy exists under the name its identifier
\* gives: then it either saves what it read under that name and records
\* the download, or ends the run and saves nothing for the identifier.
\* When the copy exists it is read without a network read and stays as it
\* is; with every copy on disk the lookup cannot fail. A copy is never
\* removed or changed, so there is at most one fetch of an identifier.
C22_FetchOrReuse ==
    [][ /\ cached \subseteq cached'
        /\ Cardinality(copies(cached')) = Cardinality(cached')
        /\ \A o \in {LOC_RELATION, BFLC_RELATION} :
             /\ (downloaded(o) \in log' \ log)
                  => /\ pc = "fetch"
                     /\ <<bffiURIRef, DCTERMS_relation, o>> \in graph
                     /\ local_bf_source(o) \notin copies(cached)
                     /\ <<local_bf_source(o), parseRelation(o)>> \in cached'
             /\ (pc = "fetch" /\ <<bffiURIRef, DCTERMS_relation, o>> \in graph)
                  => IF local_bf_source(o) \in copies(cached)
                     THEN downloaded(o) \notin log' \ log
                     ELSE \/ /\ local_bf_source(o) \in copies(cached')
                             /\ downloaded(o) \in log'
                          \/ /\ pc' = "aborted"
                             /\ local_bf_source(o) \notin copies(cached')
                             /\ downloaded(o) \notin log'
        /\ (/\ pc = "fetch"
            /\ \A o \in objects(graph, bffiURIRef, DCTERMS_relation) :
                 local_bf_source(o) \in copies(cached))
           => pc' = "validate" /\ cached' = cached /\ log' = log
      ]_vars

\* a run that is related to two LoC ontologies has read the copy of the one
\* that was on disk and has fetched and saved the other
C22_Witness ==
    /\ pc = "validate"
    /\ {LOC_RELATION, BFLC_RELATION} \subseteq objects(graph, bffiURIRef, DCTERMS_relation)
    /\ copies(cached) = {"bibframe.ttl", "bflc.ttl"}
    /\ downloaded(BFLC_RELATION) \in log
    /\ downloaded(LOC_RELATION) \notin log

(***************************************************************************)
(* C23, C24: versions that are not MAJOR.MINOR.PATCH                       *)
(***************************************************************************)
\* a version string of exactly three dot-separated components
threeComponents(v) == Len(split(v, ".")) = 3

\* the rows of the change notes file whose version has three components
wellFormedNotes == SelectSeq(args.notes, LAMBDA n : threeComponents(noteVersion(n)))

\* C23 (as claimed): a note whose version does not have three components is
\* dropped with a warning. Reading the change notes file leaves what reading
\* it without those notes leaves: the same change-note set, the run ended
\* only if one of the other notes ends it, and a warning logged for the
\* subject of each dropped note.
C23_MalformedNoteDropped ==
    [][pc = "cnotes" =>
         LET kept == changeNoteRows({}, wellFormedNotes, args.version, versioning_dates)
         IN  /\ kept.err = "" => /\ pc' = "rows"
                                 /\ cnotes_graph' = kept.graph
             /\ \A i \in 1..Len(args.notes) :
                   ~threeComponents(noteVersion(args.notes[i]))
                      => /\ noteTriple(args.notes[i]) \notin cnotes_graph'
                         /\ pc' = "rows"
                              => logged("WARNING",
                                        "change version does not match MAJOR.MINOR.PATCH model",
                                        <<URIRef(BFFI_NS, args.notes[i].id[3])>>) \in log'
      ]_vars

\* C24 (as claimed): with a build version that does not have three
\* components the change notes file is read with a warning and without a
\* version check: the run goes on to the rows, and every note with a
\* three-component version and a release date is in the change-note set.
C24_VersionCheckDisabled ==
    [][(/\ pc = "cnotes"
        /\ ~threeComponents(args.version)
        /\ \A i \in 1..Len(args.notes) :
              /\ threeComponents(noteVersion(args.notes[i]))
              /\ hasDate(versioning_dates, noteVersion(args.notes[i])))
       => /\ logged("WARNING", "Version numbering does not match MAJOR.MINOR.PATCH model",
                    <<>>) \in log'
          /\ pc' = "rows"
          /\ \A i \in 1..Len(args.notes) : noteTriple(args.notes[i]) \in cnotes_graph'
      ]_vars

(***************************************************************************)
(* C25: the previous row of the continuation rule                          *)
(***************************************************************************)
\* the domain/range step has handled the cell of column col: the subject
\* has the term the cell names or, for a bracketed cell, a new union node
applied(col) ==
    IF row[col][1] = "["
    THEN \E u \in objects(graph', subj, predicateOf(col)) :
            isBNode(u) /\ u \notin nodes(graph)
    ELSE Resolved(row[col]) \in objects(graph', subj, predicateOf(col))

\* C25: the previous row is the most recent accepted row. It becomes the
\* current row when an accepted row ends and changes at no other step: a
\* skipped row leaves it, and the graph, as they were. The domain/range
\* step of an accepted row leaves the subject's domain (range) triples
\* alone when the cell repeats that of the previous row for the same id,
\* and handles the cell when the previous row has another id or another
\* cell value.
C25_PreviousRowIsLastAccepted ==
    [][ /\ IF RowEnds THEN prevRow' = row ELSE prevRow' = prevRow
        /\ (nrows' = nrows + 1 /\ row'.status \notin {PUBLISHED, PLANNED, DEPRECATED})
              => /\ prevRow' = prevRow /\ graph' = graph /\ nb' = nb
                 /\ pc' = "rows"
        /\ RowEnds => row.status \in {PUBLISHED, PLANNED, DEPRECATED}
        /\ \A col \in {"domain", "range"} :
             (pc = "domain" /\ row[col] # <<>>) =>
                IF row.id = prevRow.id /\ row[col] = prevRow[col]
                THEN objects(graph', subj, predicateOf(col))
                        = objects(graph, subj, predicateOf(col))
                ELSE pc' = "type" => applied(col)
      ]_vars

\* C25 witness: after an accepted row with a bracketed range cell a row was
\* skipped, and the previous row is still the accepted one
C25_Witness ==
    /\ pc = "rows" /\ nrows = 2
    /\ row.status \notin {PUBLISHED, PLANNED, DEPRECATED}
    /\ prevRow.status = PUBLISHED
    /\ prevRow.id = ID_a /\ row.id = ID_a
    /\ prevRow.range = UNION_Work_Agent
    /\ row.range = UNION_Work_Agent
    /\ graph = rowStart
    /\ \E u \in objects(graph, URIRef(BFFI_NS, "a"), RDFS_range) : isBNode(u)

(***************************************************************************)
(* C26, C27: explicit ranges, default ranges and suppressed cells          *)
(***************************************************************************)
\* C26 (as claimed): after a row of a subject that is not deprecated and
\* has the type ObjectProperty, the subject has the default range Resource
\* only if it has no other range: a range that a row states does not stand
\* next to the default range an earlier row added.
C26_DefaultRangeOnlyWithoutExplicit ==
    [][(/\ RowEnds
        /\ row.status # <<"deprecated">>
        /\ <<subj, RDF_type, OWL_ObjectProperty>> \in graph'
        /\ <<subj, RDFS_range, RDFS_Resource>> \in graph')
       => /\ objects(graph', subj, RDFS_range) = {RDFS_Resource}
          /\ row.range = <<>>
      ]_vars

\* C27 (as claimed): after an accepted row that is not deprecated and has a
\* domain (range) cell, the subject has the domain (range) the cell states:
\* the term of a single-term cell, a union node for a bracketed cell. A row
\* with a range cell does not get the default range in its place.
C27_StatedValuePresent ==
    [][(RowEnds /\ row.status # <<"deprecated">>)
       => /\ \A col \in {"domain", "range"} :
               row[col] # <<>> =>
                  IF row[col][1] = "["
                  THEN \E u \in objects(graph', subj, predicateOf(col)) : isBNode(u)
                  ELSE Resolved(row[col]) \in objects(graph', subj, predicateOf(col))
          /\ (row.range # <<>> /\ row.range # <<"rdfs", ":", "Resource">>)
                => <<subj, RDFS_range, RDFS_Resource>> \notin graph'
      ]_vars

(***************************************************************************)
(* C28, C29, C30: the graph after every row                                *)
(***************************************************************************)
\* C28 (as claimed): after every row the graph holds (b, inverseOf, a)
\* whenever it holds (a, inverseOf, b), and likewise for disjointWith, also
\* when a or b has been deprecated.
C28_SymmetricRelations ==
    [][RowEnds =>
         \A t \in graph' :
            t[2] \in {OWL_inverseOf, OWL_disjointWith} => <<t[3], t[2], t[1]>> \in graph'
      ]_vars

\* the anonymous union nodes of graph g
unionNodes(g) == {t[1] : t \in {x \in g : x[2] = OWL_unionOf}}

\* the domain and range triples of graph g that point at node u
references(g, u) == {t \in g : t[3] = u /\ t[2] \in {RDFS_domain, RDFS_range}}

\* C29 (as claimed): after every row each anonymous union node is the
\* object of exactly one domain or range triple: none is left without a
\* reference and none is shared.
C29_UnionNodesReferencedOnce ==
    [][RowEnds =>
         \A u \in unionNodes(graph') : Cardinality(references(graph', u)) = 1
      ]_vars

\* the languages of the labels of subject s in graph g
labelLanguages(g, s) == {o[2] : o \in objects(g, s, RDFS_label)}

\* C30: an accepted row gives its subject a label in English and one in
\* Finnish, the empty string for an empty or sentinel cell, and no step
\* takes a label away, deprecation included; so the subject of an accepted
\* row has both labels from that row on to the end of the run. The
\* validator reports missing labels only for a subject without any label,
\* hence never for the subject of an accepted row.
C30_LabelsAlwaysPresent ==
    [][ /\ \A t \in graph : t[2] = RDFS_label => t \in graph'
        /\ (pc = "rows" /\ pc' = "domain")
              => /\ {<<"lit", "en">> \o row'.label_en, <<"lit", "fi">> \o row'.label_fi}
                        \subseteq objects(graph', bffi_id(row'), RDFS_label)
                 /\ {"en", "fi"} \subseteq labelLanguages(graph', bffi_id(row'))
        /\ pc \in {"domain", "type", "mapping", "relations", "status"}
              => {"en", "fi"} \subseteq labelLanguages(graph', subj)
        /\ \A rec \in log' :
              rec.msg = "is missing labels!"
                 => labelLanguages(graph', rec.about[1]) = {}
      ]_vars

\* C30 witness: at the end of a run a deprecated subject keeps the labels
\* of its row, the Finnish one empty, and the validator has reported
\* missing labels for another subject only
C30_Witness ==
    /\ pc = "done"
    /\ <<URIRef(BFFI_NS, "a"), OWL_deprecated, TRUE_LITERAL>> \in graph
    /\ row.id = ID_a /\ row.status = <<"deprecated">> /\ row.label_fi = <<>>
    /\ {<<"lit", "en", "a">>, <<"lit", "fi">>}
          \subseteq objects(graph, URIRef(BFFI_NS, "a"), RDFS_label)
    /\ \E rec \in log : rec.msg = "is missing labels!"
    /\ \A rec \in log : rec.msg = "is missing labels!" => rec.about[1] # URIRef(BFFI_NS, "a")

=============================================================================
